---- MODULE Spec2Model ----
(***************************************************************************)
(* ResourcesContextProvider (src/unnamed/part_000): the resource graph     *)
(* store of the topology explorer.  The provider is a React function       *)
(* component: every render creates new closures over that render's values  *)
(* of gens, guidToGenId and focus.  A UI operation runs the closures of    *)
(* the current render; a response callback handed to callPOST is the       *)
(* closure of the render that issued the request, so it reads the gens and *)
(* guidToGenId of that render (its "view") and writes the present state.   *)
(* Generation objects and the entity objects they hold are shared by       *)
(* reference between the state and every view (Object.assign([], gens) is  *)
(* a shallow copy), so they live in a heap; an object that neither gens    *)
(* nor any view refers to is garbage and is dropped from it.               *)
(***************************************************************************)
EXTENDS Integers, Sequences, FiniteSets, TLC

\* Bounds of the model.
MaxRequests == 2
DeepRequests == 3
ServicesRequests == 1

\* Names the user and the view service can supply.
PlatformNames == {"p1"}
ServerNames == {"s1"}
CohortNames == {"c1"}

\* JavaScript null / an absent property, as they appear in string-valued fields.
Null == "null"
Undefined == "undefined"

VARIABLES
  focus,          \* useState { category, guid }
  serverConfig,   \* useState { stored, active, matching, diffs, loading }
  operationState, \* useState { state, name }
  gens,           \* useState []: sequence of references to generation objects
  guidToGenId,    \* useState {}: guid -> 1-based generation number
  heap,           \* the reachable generation objects; a reference is a position
  pending,        \* requests handed to callPOST and not yet answered, in issue order
  budget,         \* number of requests the model still lets callPOST take
  lastOp          \* the operation that produced this state and what it reported

vars == <<focus, serverConfig, operationState, gens, guidToGenId, heap, pending,
          budget, lastOp>>

Range(f) == {f[x] : x \in DOMAIN f}

RECURSIVE ViewRefs(_, _)
\* The references held by the views of the requests in flight, in issue order.
ViewRefs(pend, i) ==
  IF i > Len(pend) THEN <<>> ELSE pend[i].viewGens \o ViewRefs(pend, i + 1)

RECURSIVE FirstOccurrences(_, _, _)
FirstOccurrences(refs, i, seen) ==
  IF i > Len(refs) THEN seen
  ELSE FirstOccurrences(refs, i + 1,
         IF refs[i] \in Range(seen) THEN seen ELSE Append(seen, refs[i]))

\* References are opaque: the generation objects reachable from gens gs or
\* from a view are numbered in the order they are met there, and an
\* unreachable object is dropped.
Commit(h, gs, pend) ==
  LET order == FirstOccurrences(gs \o ViewRefs(pend, 1), 1, <<>>)
      rho == [r \in Range(order) |-> CHOOSE i \in 1..Len(order) : order[i] = r]
  IN /\ gens' = [i \in 1..Len(gs) |-> rho[gs[i]]]
     /\ pending' = [i \in 1..Len(pend) |->
                      [pend[i] EXCEPT !.viewGens = [k \in 1..Len(@) |-> rho[@[k]]]]]
     /\ heap' = [r \in 1..Len(order) |-> h[order[r]]]

----------------------------------------------------------------------------
\* GUID generators

genPlatformGUID(platformRootName) == "PLATFORM_" \o platformRootName

genServerInstanceGUID(serverInstanceName) == "SERVER_INSTANCE_" \o serverInstanceName

genPlatformServerEdgeGUID(edgeName) == "PLATFORM_TO_SERVER_" \o edgeName

genServiceInstanceGUID(serviceName) == "SERVICE_INSTANCE_" \o serviceName

genCohortGUID(cohortName) == "COHORT_" \o cohortName

genServerCohortGUID(serverCohortName) == "SERVER_COHORT" \o serverCohortName

----------------------------------------------------------------------------
\* Objects are functions from property names to values.

\* Object.assign(target, source): every own property of source overwrites or
\* extends target; the other properties of target are kept.
ObjectAssign(target, source) ==
  [f \in DOMAIN target \cup DOMAIN source |->
     IF f \in DOMAIN source THEN source[f] ELSE target[f]]

\* obj[key] = value on a keyed collection held in insertion order
\* (Object.keys order): an existing key keeps its position.
PutEntry(entries, guid, obj) ==
  IF \E i \in 1..Len(entries) : entries[i].guid = guid
  THEN [i \in 1..Len(entries) |->
          IF entries[i].guid = guid THEN [guid |-> guid, obj |-> obj] ELSE entries[i]]
  ELSE Append(entries, [guid |-> guid, obj |-> obj])

createEmptyGen(requestSummary) ==
  [requestSummary |-> requestSummary, resources |-> <<>>, relationships |-> <<>>]

getLatestGenId(viewGens) == Len(viewGens)

----------------------------------------------------------------------------
\* updateGens

\* One iteration of resourceKeys.forEach / relationshipKeys.forEach (kind is
\* "resources" or "relationships").  A guid known to the view's guidToGenId is
\* merged in place into the entity of the generation it is indexed to; a
\* TypeError is thrown if that generation or entity is not there.  An unknown
\* guid is staged into ad_gen, stamped with ad_genId and added to map_clone.
updateEntry(kind, guid, obj, viewGens, viewMap, ad_genId, acc) ==
  IF guid \in DOMAIN viewMap
  THEN LET ex_genId == viewMap[guid] IN
       IF ex_genId < 1 \/ ex_genId > Len(viewGens)
       THEN [acc EXCEPT !.threw = TRUE]
       ELSE LET ref == viewGens[ex_genId] IN
            IF guid \notin DOMAIN acc.heap[ref][kind]
            THEN [acc EXCEPT !.threw = TRUE]
            ELSE [acc EXCEPT !.heap[ref][kind][guid] = ObjectAssign(@, obj)]
  ELSE [acc EXCEPT !.addingGen = TRUE,
                   !.ad_gen[kind] = (guid :> ObjectAssign(obj, [gen |-> ad_genId])) @@ @,
                   !.map_clone = (guid :> ad_genId) @@ @]

RECURSIVE updateEntries(_, _, _, _, _, _, _)
updateEntries(kind, entries, i, viewGens, viewMap, ad_genId, acc) ==
  IF i > Len(entries) \/ acc.threw
  THEN acc
  ELSE updateEntries(kind, entries, i + 1, viewGens, viewMap, ad_genId,
         updateEntry(kind, entries[i].guid, entries[i].obj, viewGens, viewMap, ad_genId, acc))

\* updateGens(update_objects, requestSummary) run by a closure whose gens and
\* guidToGenId are viewGens and viewMap, on heap h.  The result tells what the
\* call did: threw (a TypeError left the function before any setter), the heap
\* after the in-place merges, and the arguments of setGens and setGuidToGenId
\* (setMap says whether setGuidToGenId was called).
updateGens(update_objects, requestSummary, viewGens, viewMap, h) ==
  LET ad_genId == getLatestGenId(viewGens) + 1
      acc0 == [heap |-> h, ad_gen |-> createEmptyGen(requestSummary),
               map_clone |-> viewMap, addingGen |-> FALSE, threw |-> FALSE]
      acc1 == updateEntries("resources", update_objects.resources, 1,
                            viewGens, viewMap, ad_genId, acc0)
      acc2 == updateEntries("relationships", update_objects.relationships, 1,
                            viewGens, viewMap, ad_genId, acc1)
      stored == acc2.addingGen /\ ~acc2.threw
  IN [threw |-> acc2.threw,
      heap |-> IF stored THEN Append(acc2.heap, acc2.ad_gen) ELSE acc2.heap,
      gens |-> IF stored THEN Append(viewGens, Len(acc2.heap) + 1) ELSE viewGens,
      setMap |-> acc2.addingGen,
      map |-> acc2.map_clone]

----------------------------------------------------------------------------
\* The request gateway (requestContext.callPOST) and the reporting collaborators

\* A json response is <<>> (no response object) or <<obj>>.
Truthy(json) == json # <<>>

Has(obj, f) == f \in DOMAIN obj

\* callPOST(category, name, path, body, callback): the request is in flight
\* with the callback of the current render, which closes over gens and
\* guidToGenId as they are now.
\* selected records which resource changeFocusResource was asked for when it
\* issued the request (the empty focus for every other caller).
callPOST(kind, body) ==
  Append(pending, [kind |-> kind, body |-> body, viewGens |-> gens, viewMap |-> guidToGenId,
                   selected |-> [category |-> "", guid |-> ""]])

\* pend, its newest request marked as issued for the selection of resource.
Selecting(pend, resource) ==
  [pend EXCEPT ![Len(pend)].selected = [category |-> resource.category,
                                        guid |-> resource.guid]]

CanIssue == budget > 0

\* pending without the request at position slot, whose response is being processed.
Answered(slot) ==
  [i \in 1..(Len(pending) - 1) |-> IF i < slot THEN pending[i] ELSE pending[i + 1]]

\* The requestSummary the view service returns echoes the request.
RequestSummaryOf(req) == req.body

\* What an operation did besides changing the state: the label it gave to
\* reportFailedOperation ("" if none), whether it raised an alert, whether it
\* ended in a TypeError, the update objects it gave to updateGens (called
\* says whether it did), the guids of the generation removeGen popped,
\* whether it called clearFocusResource, the guid it was called with (arg,
\* "" when it takes none), for a callback the selection its request was
\* issued for, the focus guid it found, and for a callback that did not
\* process its response what that response lacked.
Complete == [present |-> TRUE, ok |-> TRUE, requestSummary |-> TRUE, payload |-> TRUE]

Quiet(op) ==
  [op |-> op, reported |-> "", alerted |-> FALSE, threw |-> FALSE, called |-> FALSE,
   update |-> <<>>, removed |-> [resources |-> {}, relationships |-> {}],
   cleared |-> FALSE, arg |-> "", selected |-> [category |-> "", guid |-> ""],
   prevFocus |-> focus.guid, response |-> Complete]

Report(op, reported, alerted, threw) ==
  lastOp' = [Quiet(op) EXCEPT !.reported = reported, !.alerted = alerted, !.threw = threw]

\* What the response json has: whether it is present, carries code 200, a
\* requestSummary and the payload field of the operation.
Heard(json, payload) ==
  IF ~Truthy(json)
  THEN [present |-> FALSE, ok |-> FALSE, requestSummary |-> FALSE, payload |-> FALSE]
  ELSE [present |-> TRUE, ok |-> json[1].relatedHTTPCode = 200,
        requestSummary |-> Has(json[1], "requestSummary"),
        payload |-> Has(json[1], payload)]

\* A callback did not process json: it gave the label reported to
\* reportFailedOperation ("" if it did not call it) or raised an alert.
Unprocessed(op, reported, alerted, json, payload) ==
  lastOp' = [Quiet(op) EXCEPT !.reported = reported, !.alerted = alerted,
                              !.response = Heard(json, payload)]

\* guid -> update object, for the entries of update_objects.
SuppliedObjects(update_objects) ==
  LET entries == update_objects.resources \o update_objects.relationships
  IN [g \in {entries[i].guid : i \in 1..Len(entries)} |->
        entries[CHOOSE i \in 1..Len(entries) : entries[i].guid = g].obj]

ReportUpdate(op, update_objects, threw) ==
  lastOp' = [Quiet(op) EXCEPT !.threw = threw, !.called = TRUE,
                              !.update = SuppliedObjects(update_objects)]

\* The request whose response a callback is processing, pend being what
\* stays in flight.
AnsweredRequest(pend) ==
  pending[CHOOSE slot \in 1..Len(pending) : pend = Answered(slot)]

\* ReportUpdate for a callback, with the selection its request was issued for.
ReportAnswer(op, update_objects, threw, pend) ==
  lastOp' = [Quiet(op) EXCEPT !.threw = threw, !.called = TRUE,
                              !.update = SuppliedObjects(update_objects),
                              !.selected = AnsweredRequest(pend).selected]

\* The state after a handler's call of updateGens: the setters are reached
\* only if nothing was thrown; in-place merges done before a throw remain.
ApplyUpdate(u, pend) ==
  /\ guidToGenId' = IF ~u.threw /\ u.setMap THEN u.map ELSE guidToGenId
  /\ Commit(u.heap, IF u.threw THEN gens ELSE u.gens, pend)

\* A handler that leaves gens and guidToGenId alone.
SameGraph(pend) ==
  /\ UNCHANGED guidToGenId
  /\ Commit(heap, gens, pend)

reportFailedOperationClearingFocus(op, label, slot, json, payload) ==
  /\ focus' = [category |-> "", guid |-> ""]
  /\ UNCHANGED <<serverConfig, operationState>>
  /\ SameGraph(Answered(slot))
  /\ Unprocessed(op, label, FALSE, json, payload)

\* The failure tail of a callback: interactionContext.reportFailedOperation
\* is given the label and json; no state setter is called.
reportFailedOperation(op, label, slot, json, payload) ==
  /\ UNCHANGED <<focus, serverConfig, operationState>>
  /\ SameGraph(Answered(slot))
  /\ Unprocessed(op, label, FALSE, json, payload)

\* A response without a json object, one with a failure code, and a 200
\* response that lacks its payload.
FailedResponses(req) ==
  { <<>>,
    << [relatedHTTPCode |-> 500] >>,
    << [relatedHTTPCode |-> 200, requestSummary |-> RequestSummaryOf(req)] >> }

----------------------------------------------------------------------------
\* Platforms

PlatformOverviews(platformName) ==
  { [platformName |-> platformName],
    [platformName |-> platformName, platformRootURL |-> "url_" \o platformName],
    [platformName |-> platformName, platformRootURL |-> "url_" \o platformName,
     description |-> "described"] }

PlatformResponses(req) ==
  FailedResponses(req) \cup
  { << [relatedHTTPCode |-> 200, requestSummary |-> RequestSummaryOf(req),
        platformOverview |-> po] >> : po \in PlatformOverviews(req.body.platformName) }

loadPlatform(platformName) ==
  callPOST("load platform",
           [operation |-> "load platform", platformName |-> platformName,
            serverName |-> Null, serverInstanceName |-> Null])

processRetrievedPlatform(requestSummary, platformOverview, viewGens, viewMap, pend) ==
  IF ~Has(platformOverview, "platformRootURL")
  THEN /\ UNCHANGED <<focus, serverConfig, operationState>>
       /\ SameGraph(pend)
       /\ Report("_loadPlatform", "", FALSE, FALSE)
  ELSE LET guid == genPlatformGUID(platformOverview.platformName)
           obj == ObjectAssign(platformOverview, [category |-> "platform", guid |-> guid])
           update_objects == [resources |-> PutEntry(<<>>, guid, obj), relationships |-> <<>>]
           u == updateGens(update_objects, requestSummary, viewGens, viewMap, heap)
       IN /\ ApplyUpdate(u, pend)
          /\ ReportAnswer("_loadPlatform", update_objects, u.threw, pend)
          /\ IF u.threw
             THEN UNCHANGED <<focus, serverConfig, operationState>>
             ELSE /\ focus' = [category |-> "platform", guid |-> guid]
                  /\ serverConfig' = [stored |-> Null, active |-> Null, loading |-> "init"]
                  /\ operationState' = [state |-> "inactive", name |-> ""]

_loadPlatform(slot, json) ==
  LET req == pending[slot] IN
  IF /\ Truthy(json)
     /\ json[1].relatedHTTPCode = 200
     /\ Has(json[1], "requestSummary")
     /\ Has(json[1], "platformOverview")
  THEN processRetrievedPlatform(json[1].requestSummary, json[1].platformOverview,
                                req.viewGens, req.viewMap, Answered(slot))
  ELSE reportFailedOperation("_loadPlatform", "load platform", slot, json, "platformOverview")

\* mapPlatformGUIDToPlatformName: the platform's name, or null (after an alert).
mapPlatformGUIDToPlatformName(guid) ==
  IF /\ guid \in DOMAIN guidToGenId
     /\ guidToGenId[guid] <= Len(gens)
     /\ guid \in DOMAIN heap[gens[guidToGenId[guid]]].resources
  THEN heap[gens[guidToGenId[guid]]].resources[guid].platformName
  ELSE Null

\* getActiveServers / getKnownServers: the request is issued whatever the
\* mapping returned.
getServers(kind, platformGUID) ==
  LET platformName == mapPlatformGUIDToPlatformName(platformGUID) IN
  /\ CanIssue
  /\ budget' = budget - 1
  /\ SameGraph(callPOST(kind, [operation |-> kind, platformName |-> platformName]))
  /\ UNCHANGED <<focus, serverConfig, operationState>>
  /\ Report(IF kind = "get active servers" THEN "getActiveServers" ELSE "getKnownServers",
            "", platformName = Null, FALSE)

\* The server lists a platform can answer with: DinoServerInstance objects
\* whose serverInstanceName is null when the view service has no resource
\* endpoint for the server.
ServerLists(platformName) ==
  {<<>>} \cup
  { << [serverName |-> sn, platformName |-> platformName,
        serverInstanceName |-> sin, isActive |-> TRUE] >> :
      sn \in ServerNames, sin \in ServerNames \cup {Null} }

\* A request for the servers of platform "null" (the guid could not be
\* mapped) names no platform of the view service and fails.
ServersResponses(req) ==
  FailedResponses(req) \cup
  IF req.body.platformName = Null THEN {}
  ELSE { << [relatedHTTPCode |-> 200, requestSummary |-> RequestSummaryOf(req),
             serverList |-> sl] >> : sl \in ServerLists(req.body.platformName) }

RECURSIVE listedServers(_, _, _)
\* serverList.forEach of loadServersFromPlatformQuery: the update objects
\* after the servers from position i on have been added.
listedServers(serverList, i, update_objects) ==
  IF i > Len(serverList) THEN update_objects
  ELSE LET listedServer == serverList[i]
           serverName == listedServer.serverName
           platformName == listedServer.platformName
       IN IF serverName = Null \/ platformName = Null
          THEN listedServers(serverList, i + 1, update_objects)
          ELSE LET serverInstanceName ==
                     IF listedServer.serverInstanceName = Null
                     THEN serverName \o "@" \o platformName
                     ELSE listedServer.serverInstanceName
                   serverInstanceGUID == genServerInstanceGUID(serverInstanceName)
                   serverInstance ==
                     [category |-> "server-instance",
                      serverInstanceName |-> serverInstanceName,
                      serverName |-> serverName,
                      isActive |-> listedServer.isActive,
                      platformName |-> platformName,
                      guid |-> serverInstanceGUID]
                   edgeGUID == genPlatformServerEdgeGUID(serverInstanceName)
                   edge ==
                     [category |-> "platform-server-edge",
                      serverInstanceName |-> serverInstanceName,
                      guid |-> edgeGUID,
                      serverName |-> serverName,
                      platformName |-> platformName,
                      source |-> genPlatformGUID(platformName),
                      target |-> serverInstanceGUID]
               IN listedServers(serverList, i + 1,
                    [resources |->
                       PutEntry(update_objects.resources, serverInstanceGUID, serverInstance),
                     relationships |->
                       PutEntry(update_objects.relationships, edgeGUID, edge)])

\* loadServersFromPlatformQuery ending, as processRetrievedServer does, with a
\* reset of the operation state.
loadServersFromPlatformQueryResetting(op, requestSummary, serverList, viewGens, viewMap, pend) ==
  LET update_objects == listedServers(serverList, 1, [resources |-> <<>>, relationships |-> <<>>])
      u == updateGens(update_objects, requestSummary, viewGens, viewMap, heap)
  IN /\ ApplyUpdate(u, pend)
     /\ UNCHANGED <<focus, serverConfig>>
     /\ operationState' = [state |-> "inactive", name |-> ""]
     /\ ReportUpdate(op, update_objects, u.threw)

\* loadServersFromPlatformQuery(requestSummary, serverList): the listed
\* servers and their platform links are given to updateGens; no other state
\* setter is called.
loadServersFromPlatformQuery(op, requestSummary, serverList, viewGens, viewMap, pend) ==
  LET update_objects == listedServers(serverList, 1, [resources |-> <<>>, relationships |-> <<>>])
      u == updateGens(update_objects, requestSummary, viewGens, viewMap, heap)
  IN /\ ApplyUpdate(u, pend)
     /\ UNCHANGED <<focus, serverConfig, operationState>>
     /\ ReportUpdate(op, update_objects, u.threw)

\* _getActiveServers / _getKnownServers
_getServers(op, label, slot, json) ==
  LET req == pending[slot] IN
  IF Truthy(json) /\ json[1].relatedHTTPCode = 200
  THEN IF Has(json[1], "requestSummary") /\ Has(json[1], "serverList")
       THEN loadServersFromPlatformQuery(op, json[1].requestSummary, json[1].serverList,
                                         req.viewGens, req.viewMap, Answered(slot))
       ELSE /\ UNCHANGED <<focus, serverConfig, operationState>>
            /\ SameGraph(Answered(slot))
            /\ Unprocessed(op, "", TRUE, json, "serverList")
  ELSE reportFailedOperation(op, label, slot, json, "serverList")

----------------------------------------------------------------------------
\* Servers

resourceExists(guid, viewMap) == guid \in DOMAIN viewMap

\* The cohortDetails of a server overview: cohort name -> connection status
\* (empty when the overview carries no cohort details).
CohortDetails == {<<>>} \cup {[c \in CohortNames |-> "CONNECTED"]}

\* The integration services registered to a server that runs any: the
\* serviceName of a RegisteredOMAGService is the full name of the service.
RegisteredServices ==
  << [serviceName |-> "svc full", serviceURLMarker |-> "svc"] >>

\* A server overview lists cohort details and integration services, or neither.
ServerOverviews(body) ==
  { ObjectAssign(
      [serverInstanceName |-> body.serverInstanceName, serverName |-> body.serverName,
       platformRootURL |-> "url_" \o body.platformName, serverOrigin |-> "origin",
       serverClassification |-> "classification", cohortDetails |-> cd,
       serverStatus |-> "status", serverServicesList |-> <<>>,
       integrationServices |-> IF cd = <<>> THEN <<>> ELSE RegisteredServices],
      IF Has(body, "description") THEN [description |-> body.description] ELSE <<>>) :
    cd \in CohortDetails }

ServerResponses(req) ==
  FailedResponses(req) \cup
  { << [relatedHTTPCode |-> 200, requestSummary |-> RequestSummaryOf(req),
        serverOverview |-> so] >> : so \in ServerOverviews(req.body) }

loadServerFromSelector(serverName, platformName, serverInstanceName, description) ==
  /\ CanIssue
  /\ budget' = budget - 1
  /\ operationState' = [state |-> "loading", name |-> serverName]
  /\ SameGraph(callPOST("load server",
                        [serverName |-> serverName, platformName |-> platformName,
                         serverInstanceName |-> serverInstanceName,
                         description |-> description]))
  /\ UNCHANGED <<focus, serverConfig>>
  /\ Report("loadServerFromSelector", "", FALSE, FALSE)

loadServer(serverInstanceName, serverName, platformName) ==
  callPOST("load server",
           [serverInstanceName |-> serverInstanceName, serverName |-> serverName,
            platformName |-> platformName])

processRetrievedServer(requestSummary, serverOverview, viewGens, viewMap, pend) ==
  LET serverInstanceName == serverOverview.serverInstanceName
      platformName == requestSummary.platformName
      serverName == serverOverview.serverName
      serverInstanceGUID == genServerInstanceGUID(serverInstanceName)
      serverInstance ==
        [category |-> "server-instance",
         serverInstanceName |-> serverInstanceName,
         guid |-> serverInstanceGUID,
         serverName |-> serverName,
         platformName |-> platformName,
         description |->
           IF Has(serverOverview, "description")
           THEN "Loaded by " \o serverInstanceName \o " server link. "
                  \o serverOverview.description
           ELSE "Loaded by " \o platformName \o " platform query",
         platformRootURL |-> serverOverview.platformRootURL,
         serverOrigin |-> serverOverview.serverOrigin,
         serverClassification |-> serverOverview.serverClassification,
         cohortDetails |-> serverOverview.cohortDetails,
         serverStatus |-> serverOverview.serverStatus,
         serverServicesList |-> serverOverview.serverServicesList,
         integrationServices |-> serverOverview.integrationServices]
      platformGUID == genPlatformGUID(platformName)
      edgeName == serverName \o "@" \o platformName
      edgeGUID == genPlatformServerEdgeGUID(edgeName)
      edge ==
        [category |-> "platform-server-edge",
         edgeName |-> edgeName,
         guid |-> edgeGUID,
         serverInstanceName |-> serverInstanceName,
         serverName |-> serverName,
         platformName |-> platformName,
         source |-> platformGUID,
         target |-> serverInstanceGUID]
      update_objects ==
        [resources |-> PutEntry(<<>>, serverInstanceGUID, serverInstance),
         relationships |-> IF resourceExists(platformGUID, viewMap)
                           THEN PutEntry(<<>>, edgeGUID, edge) ELSE <<>>]
      u == updateGens(update_objects, requestSummary, viewGens, viewMap, heap)
  IN /\ ApplyUpdate(u, pend)
     /\ ReportAnswer("_loadServer", update_objects, u.threw, pend)
     /\ IF u.threw
        THEN UNCHANGED <<focus, serverConfig, operationState>>
        ELSE /\ focus' = [category |-> "server-instance", guid |-> serverInstanceGUID]
             /\ serverConfig' = [stored |-> Null, active |-> Null, matching |-> TRUE,
                                 diffs |-> Null, loading |-> "init"]
             /\ operationState' = [state |-> "inactive", name |-> ""]

_loadServer(slot, json) ==
  LET req == pending[slot] IN
  IF /\ Truthy(json)
     /\ json[1].relatedHTTPCode = 200
     /\ Has(json[1], "requestSummary")
     /\ Has(json[1], "serverOverview")
  THEN processRetrievedServer(json[1].requestSummary, json[1].serverOverview,
                              req.viewGens, req.viewMap, Answered(slot))
  ELSE reportFailedOperation("_loadServer", "load server", slot, json, "serverOverview")

\* loadServerFromGen, called by changeFocusResource after it set the
\* operation state: without a platform name it alerts and issues nothing.
loadServerFromGen(server) ==
  IF ~Has(server, "platformName") \/ server.platformName = Null
  THEN /\ UNCHANGED <<gens, guidToGenId, heap, pending, budget>>
       /\ lastOp' = [Quiet("changeFocusResource") EXCEPT !.arg = server.guid,
                                                          !.alerted = TRUE]
  ELSE /\ CanIssue
       /\ budget' = budget - 1
       /\ SameGraph(Selecting(loadServer(server.serverInstanceName, server.serverName,
                                         server.platformName), server))
       /\ lastOp' = [Quiet("changeFocusResource") EXCEPT !.arg = server.guid]

----------------------------------------------------------------------------
\* Cohorts

\* loadCohort(serverName, cohortName, configured): a local operation; it
\* throws when the server's entity or its cohort details are not there.
loadCohort(serverName, cohortName, configured) ==
  LET serverInstanceGUID == genServerInstanceGUID(serverName) IN
  IF serverInstanceGUID \notin DOMAIN guidToGenId
  THEN /\ UNCHANGED <<focus, serverConfig, operationState, gens, guidToGenId, heap, pending>>
       /\ Report("loadCohort", "", TRUE, FALSE)
  ELSE LET serverGenId == guidToGenId[serverInstanceGUID] IN
       IF \/ serverGenId > Len(gens)
          \/ serverInstanceGUID \notin DOMAIN heap[gens[serverGenId]].resources
          \/ ~Has(heap[gens[serverGenId]].resources[serverInstanceGUID], "cohortDetails")
          \/ ~Has(heap[gens[serverGenId]].resources[serverInstanceGUID].cohortDetails,
                  cohortName)
       THEN /\ UNCHANGED <<focus, serverConfig, operationState, gens, guidToGenId, heap,
                            pending>>
            /\ Report("loadCohort", "", FALSE, TRUE)
       ELSE LET server == heap[gens[serverGenId]].resources[serverInstanceGUID]
                cohortGUID == genCohortGUID(cohortName)
                cohort == [category |-> "cohort", cohortName |-> cohortName,
                           guid |-> cohortGUID]
                serverCohortName == serverName \o "@" \o cohortName
                serverCohortGUID == genServerCohortGUID(serverCohortName)
                serverCohortRelationship ==
                  [category |-> "server-cohort",
                   serverCohortName |-> serverCohortName,
                   guid |-> serverCohortGUID,
                   serverName |-> serverName,
                   cohortName |-> cohortName,
                   active |-> (server.cohortDetails[cohortName] = "CONNECTED"),
                   source |-> serverInstanceGUID,
                   target |-> cohortGUID]
                update_objects ==
                  [resources |-> PutEntry(<<>>, cohortGUID, cohort),
                   relationships |->
                     PutEntry(<<>>, serverCohortGUID, serverCohortRelationship)]
                requestSummary ==
                  [serverName |-> serverName, platformName |-> Null,
                   operation |-> IF configured
                                 THEN "Expansion of server configuration for cohort "
                                        \o cohortName
                                 ELSE "Expansion of cohort " \o cohortName]
                u == updateGens(update_objects, requestSummary, gens, guidToGenId, heap)
            IN /\ ApplyUpdate(u, pending)
               /\ UNCHANGED <<focus, serverConfig, operationState>>
               /\ ReportUpdate("loadCohort", update_objects, u.threw)

----------------------------------------------------------------------------
\* Services

\* serviceConfig : null
NoConfig == [null |-> TRUE]

\* useState availablePlatforms, as the platform selector sets it on
\* initialisation.
availablePlatforms == [p \in PlatformNames |-> [platformRootURL |-> "url_" \o p]]

\* The service details the view service returns for a service URL marker.
ServiceDetails(body) ==
  { [integrationServiceConfig |->
       [integrationServiceName |-> body.serviceURLMarker,
        integrationServiceFullName |-> body.serviceURLMarker \o " full",
        integrationServicePartnerOMAS |-> "omas",
        omagserverName |-> "mds",
        omagserverPlatformRootURL |-> "url_p1"]] }

ServiceResponses(req) ==
  FailedResponses(req) \cup
  { << [relatedHTTPCode |-> 200, requestSummary |-> RequestSummaryOf(req),
        serviceDetails |-> sd] >> : sd \in ServiceDetails(req.body) }

\* The full names of the services a component can ask loadService for.
ServiceFullNames == {RegisteredServices[i].serviceName : i \in 1..Len(RegisteredServices)}

\* loadService(serverInstanceName, serviceFullName), note being the record of
\* the operation that runs it and sel the resource it was selected for (the
\* empty focus when it was not).  Without a generation for the server nothing
\* happens; a server entity that is missing or has no integrationServices
\* list ends the call in a TypeError; a service that is not listed ends it
\* silently.
loadService(serverInstanceName, serviceFullName, note, sel) ==
  LET serverInstanceGUID == genServerInstanceGUID(serverInstanceName) IN
  IF \/ serverInstanceGUID \notin DOMAIN guidToGenId
     \/ guidToGenId[serverInstanceGUID] > Len(gens)
  THEN /\ UNCHANGED <<gens, guidToGenId, heap, pending, budget>>
       /\ lastOp' = note
  ELSE LET serverInstanceGen == heap[gens[guidToGenId[serverInstanceGUID]]] IN
       IF \/ serverInstanceGUID \notin DOMAIN serverInstanceGen.resources
          \/ ~Has(serverInstanceGen.resources[serverInstanceGUID], "integrationServices")
       THEN /\ UNCHANGED <<gens, guidToGenId, heap, pending, budget>>
            /\ lastOp' = [note EXCEPT !.threw = TRUE]
       ELSE LET serverInstance == serverInstanceGen.resources[serverInstanceGUID]
                serviceList == serverInstance.integrationServices
                found == {i \in 1..Len(serviceList) :
                            serviceList[i].serviceName = serviceFullName}
            IN IF found = {}
               THEN /\ UNCHANGED <<gens, guidToGenId, heap, pending, budget>>
                    /\ lastOp' = note
               ELSE LET svc == serviceList[CHOOSE i \in found : \A j \in found : j <= i]
                        issued == callPOST("load service",
                                    [serverName |-> serverInstance.serverName,
                                     platformName |-> serverInstance.platformName,
                                     serverInstanceName |-> serverInstanceName,
                                     serviceURLMarker |-> svc.serviceURLMarker])
                    IN /\ CanIssue
                       /\ budget' = budget - 1
                       /\ SameGraph(IF sel.guid = "" THEN issued ELSE Selecting(issued, sel))
                       /\ lastOp' = note

processRetrievedServiceDetails(requestSummary, serviceDetails, viewGens, viewMap, pend) ==
  IF ~Has(serviceDetails, "integrationServiceConfig")
  THEN /\ UNCHANGED <<focus, serverConfig, operationState>>
       /\ SameGraph(pend)
       /\ Report("_loadService", "", FALSE, TRUE)
  ELSE
  LET integrationServiceConfig == serviceDetails.integrationServiceConfig
      serviceName == integrationServiceConfig.integrationServiceName
      serverInstanceName == requestSummary.serverInstanceName
      serverInstanceGUID == genServerInstanceGUID(serverInstanceName)
      serviceInstanceName == serviceName \o "@" \o serverInstanceName
      serviceInstanceGUID == genServiceInstanceGUID(serviceInstanceName)
      serviceInstance ==
        [guid |-> serviceInstanceGUID,
         category |-> "service-instance",
         serverInstanceName |-> serverInstanceName,
         serviceName |-> serviceName,
         serviceConfig |-> integrationServiceConfig]
      edgeName == serviceInstanceName
      edgeGUID == "SERVER_SERVICE_" \o edgeName
      edge ==
        [category |-> "server-service-edge",
         serverCohortName |-> edgeName,
         guid |-> edgeGUID,
         serverInstanceName |-> serverInstanceName,
         serviceInstanceName |-> serviceInstanceName,
         source |-> serverInstanceGUID,
         target |-> serviceInstanceGUID]
      update_objects ==
        [resources |-> PutEntry(<<>>, serviceInstanceGUID, serviceInstance),
         relationships |-> PutEntry(<<>>, edgeGUID, edge)]
      u == updateGens(update_objects, requestSummary, viewGens, viewMap, heap)
  IN /\ ApplyUpdate(u, pend)
     /\ ReportAnswer("_loadService", update_objects, u.threw, pend)
     /\ UNCHANGED serverConfig
     /\ IF u.threw
        THEN UNCHANGED <<focus, operationState>>
        ELSE /\ focus' = [category |-> "service-instance", guid |-> serviceInstanceGUID]
             /\ operationState' = [state |-> "inactive", name |-> ""]

\* _loadService reports a failure under the label "load server".
_loadService(slot, json) ==
  LET req == pending[slot] IN
  IF /\ Truthy(json)
     /\ json[1].relatedHTTPCode = 200
     /\ Has(json[1], "requestSummary")
     /\ Has(json[1], "serviceDetails")
  THEN processRetrievedServiceDetails(json[1].requestSummary, json[1].serviceDetails,
                                      req.viewGens, req.viewMap, Answered(slot))
  ELSE reportFailedOperation("_loadService", "load server", slot, json, "serviceDetails")

\* loadServiceFromGen, called by changeFocusResource after it set the
\* operation state: reading the full name from a null serviceConfig throws.
loadServiceFromGen(serviceInstance) ==
  LET note == [Quiet("changeFocusResource") EXCEPT !.arg = serviceInstance.guid] IN
  IF Has(serviceInstance.serviceConfig, "null")
  THEN /\ UNCHANGED <<gens, guidToGenId, heap, pending, budget>>
       /\ lastOp' = [note EXCEPT !.threw = TRUE]
  ELSE loadService(IF Has(serviceInstance, "serverInstanceName")
                   THEN serviceInstance.serverInstanceName ELSE Undefined,
                   serviceInstance.serviceConfig.integrationServiceFullName,
                   note, serviceInstance)

\* The property a read of obj[f] yields in a string concatenation.
Read(obj, f) == IF Has(obj, f) THEN obj[f] ELSE Undefined

\* loadPartnerOMAS(sourceServiceInstanceGUID): a local operation; it throws
\* when the source service is not held or has a null serviceConfig.
loadPartnerOMAS(sourceServiceInstanceGUID) ==
  IF \/ sourceServiceInstanceGUID \notin DOMAIN guidToGenId
     \/ guidToGenId[sourceServiceInstanceGUID] > Len(gens)
     \/ sourceServiceInstanceGUID \notin
          DOMAIN heap[gens[guidToGenId[sourceServiceInstanceGUID]]].resources
     \/ Has(heap[gens[guidToGenId[sourceServiceInstanceGUID]]]
              .resources[sourceServiceInstanceGUID].serviceConfig, "null")
  THEN /\ UNCHANGED <<focus, serverConfig, operationState, gens, guidToGenId, heap, pending>>
       /\ Report("loadPartnerOMAS", "", FALSE, TRUE)
  ELSE
  LET sourceServiceInstance ==
        heap[gens[guidToGenId[sourceServiceInstanceGUID]]].resources[sourceServiceInstanceGUID]
      sourceServiceInstanceName == sourceServiceInstance.serviceName
      sourceServiceConfig == sourceServiceInstance.serviceConfig
      partnerOMASName == sourceServiceConfig.integrationServicePartnerOMAS
      partnerOMASServerName == sourceServiceConfig.omagserverName
      partnerOMASServerRootURL == sourceServiceConfig.omagserverPlatformRootURL
      correlated == {platformName \in DOMAIN availablePlatforms :
                       availablePlatforms[platformName].platformRootURL
                         = partnerOMASServerRootURL}
      correlatedPlatformName == IF correlated = {} THEN Null ELSE CHOOSE pn \in correlated : TRUE
      serviceInstanceName ==
        IF correlated = {}
        THEN partnerOMASName \o "@" \o partnerOMASServerName
        ELSE partnerOMASName \o "@" \o partnerOMASServerName \o "@" \o correlatedPlatformName
      serviceInstanceGUID == genServiceInstanceGUID(serviceInstanceName)
      serviceInstance ==
        [guid |-> serviceInstanceGUID,
         category |-> "service-instance",
         serverName |-> partnerOMASServerName,
         platformName |-> correlatedPlatformName,
         partnerOMASServerRootURL |-> partnerOMASServerRootURL,
         serviceName |-> partnerOMASName,
         serviceConfig |-> NoConfig]
      edgeName == sourceServiceInstanceName
      edgeGUID == "SERVICE_DEPENDENCY" \o edgeName
      edge ==
        [category |-> "service-dependency-edge",
         guid |-> edgeGUID,
         serviceInstanceName |-> sourceServiceInstanceName,
         source |-> sourceServiceInstanceGUID,
         target |-> serviceInstanceGUID]
      update_objects ==
        [resources |-> PutEntry(<<>>, serviceInstanceGUID, serviceInstance),
         relationships |-> PutEntry(<<>>, edgeGUID, edge)]
      requestSummary ==
        [operation |-> "Expansion of partner OMAS dependency for service "
                         \o Read(sourceServiceInstance, "serviceInstanceName")]
      u == updateGens(update_objects, requestSummary, gens, guidToGenId, heap)
  IN /\ ApplyUpdate(u, pending)
     /\ UNCHANGED <<focus, serverConfig, operationState>>
     /\ ReportUpdate("loadPartnerOMAS", update_objects, u.threw)

----------------------------------------------------------------------------
\* Focus

\* clearFocusResource resetting the category alone.
clearFocusResourceCategoryOnly ==
  /\ focus' = [focus EXCEPT !.category = ""]
  /\ serverConfig' = [stored |-> Null, active |-> Null, loading |-> "init"]

clearFocusResource ==
  /\ focus' = [category |-> "", guid |-> ""]
  /\ serverConfig' = [stored |-> Null, active |-> Null, loading |-> "init"]

\* focus.instanceGUID: the focus object has no such property.
focusInstanceGUID == IF Has(focus, "instanceGUID") THEN focus.instanceGUID ELSE Undefined

changeFocusCohortLoading(guid) ==
  /\ operationState' = [state |-> "loading", name |-> guid]
  /\ UNCHANGED <<focus, serverConfig, gens, guidToGenId, heap, pending, budget>>
  /\ lastOp' = [Quiet("changeFocusResource") EXCEPT !.arg = guid]

\* The cohort case of changeFocusResource does nothing.
changeFocusCohort(guid) ==
  /\ UNCHANGED <<focus, serverConfig, operationState, gens, guidToGenId, heap, pending,
                  budget>>
  /\ lastOp' = [Quiet("changeFocusResource") EXCEPT !.arg = guid]

changeFocusResource(guid) ==
  IF guid = focusInstanceGUID
  THEN /\ clearFocusResource
       /\ UNCHANGED <<operationState, gens, guidToGenId, heap, pending, budget>>
       /\ lastOp' = [Quiet("changeFocusResource") EXCEPT !.arg = guid, !.cleared = TRUE]
  ELSE IF guid \notin DOMAIN guidToGenId
  THEN /\ UNCHANGED <<focus, serverConfig, operationState, gens, guidToGenId, heap, pending,
                       budget>>
       /\ lastOp' = [Quiet("changeFocusResource") EXCEPT !.arg = guid]
  ELSE LET genId == guidToGenId[guid] IN
       IF genId > Len(gens) \/ guid \notin DOMAIN heap[gens[genId]].resources
       THEN /\ UNCHANGED <<focus, serverConfig, operationState, gens, guidToGenId, heap,
                            pending, budget>>
            /\ lastOp' = [Quiet("changeFocusResource") EXCEPT !.arg = guid, !.threw = TRUE]
       ELSE LET resource == heap[gens[genId]].resources[guid] IN
            CASE resource.category = "platform" ->
                   /\ CanIssue
                   /\ budget' = budget - 1
                   /\ operationState' = [state |-> "loading", name |-> resource.platformName]
                   /\ SameGraph(Selecting(loadPlatform(resource.platformName), resource))
                   /\ UNCHANGED <<focus, serverConfig>>
                   /\ lastOp' = [Quiet("changeFocusResource") EXCEPT !.arg = guid]
              [] resource.category = "server-instance" ->
                   /\ operationState' =
                        [state |-> "loading", name |-> resource.serverInstanceName]
                   /\ loadServerFromGen(resource)
                   /\ UNCHANGED <<focus, serverConfig>>
              [] resource.category = "service-instance" ->
                   /\ operationState' =
                        [state |-> "loading", name |-> Read(resource, "serviceInstanceName")]
                   /\ loadServiceFromGen(resource)
                   /\ UNCHANGED <<focus, serverConfig>>
              [] resource.category = "cohort" -> changeFocusCohort(guid)
              [] OTHER ->
                   /\ UNCHANGED <<focus, serverConfig, operationState, gens, guidToGenId,
                                  heap, pending, budget>>
                   /\ lastOp' = [Quiet("changeFocusResource") EXCEPT !.arg = guid]

\* guidToGenId[guid] names a generation of gens that holds guid under kind
\* ("resources" or "relationships"), so that gens[genId-1][kind][guid] is an
\* object; reading a property of what is found otherwise throws a TypeError.
Held(kind, guid) ==
  /\ guid \in DOMAIN guidToGenId
  /\ guidToGenId[guid] <= Len(gens)
  /\ guid \in DOMAIN heap[gens[guidToGenId[guid]]][kind]

Entity(kind, guid) == heap[gens[guidToGenId[guid]]][kind][guid]

loadTargetServerFocusing(src, tgt) ==
  /\ CanIssue
  /\ budget' = budget - 1
  /\ operationState' = [state |-> "loading", name |-> tgt.serverName]
  /\ SameGraph(loadServer(tgt.serverInstanceName, tgt.serverName, src.platformName))
  /\ focus' = [category |-> tgt.category, guid |-> tgt.guid]
  /\ UNCHANGED serverConfig

\* The platform-server branch of selectTargetResource: the target server is
\* loaded and the focus is left to the response.
loadTargetServer(src, tgt) ==
  /\ CanIssue
  /\ budget' = budget - 1
  /\ operationState' = [state |-> "loading", name |-> tgt.serverName]
  /\ SameGraph(loadServer(tgt.serverInstanceName, tgt.serverName, src.platformName))
  /\ UNCHANGED <<focus, serverConfig>>

\* selectTargetResource(relationshipGUID): loads the target server of a
\* platform-server link, alerts for another link, and throws when the link,
\* its source or its target cannot be read from the graph.
selectTargetResource(relationshipGUID) ==
  LET note == [Quiet("selectTargetResource") EXCEPT !.arg = relationshipGUID] IN
  IF \/ ~Held("relationships", relationshipGUID)
     \/ ~Held("resources", Entity("relationships", relationshipGUID).source)
     \/ ~Held("resources", Entity("relationships", relationshipGUID).target)
  THEN /\ UNCHANGED <<focus, serverConfig, operationState, gens, guidToGenId, heap, pending,
                       budget>>
       /\ lastOp' = [note EXCEPT !.threw = TRUE]
  ELSE LET relationship == Entity("relationships", relationshipGUID)
           src == Entity("resources", relationship.source)
           tgt == Entity("resources", relationship.target)
       IN IF src.category = "platform" /\ tgt.category = "server-instance"
          THEN /\ loadTargetServer(src, tgt)
               /\ lastOp' = note
          ELSE /\ UNCHANGED <<focus, serverConfig, operationState, gens, guidToGenId, heap,
                               pending, budget>>
               /\ lastOp' = [note EXCEPT !.alerted = TRUE]

----------------------------------------------------------------------------
\* Server configuration

\* loadServerConfiguration: for a focused server it marks the configuration
\* as loading, and issues the request only if the server entity lists
\* platforms; no operation of the provider gives a server that property.
loadServerConfiguration ==
  IF focus.category # "server-instance"
  THEN /\ UNCHANGED <<focus, serverConfig, operationState, gens, guidToGenId, heap, pending,
                       budget>>
       /\ Report("loadServerConfiguration", "", FALSE, FALSE)
  ELSE /\ serverConfig' = [stored |-> Null, active |-> Null, matching |-> "true",
                           diffs |-> Null, loading |-> "loading"]
       /\ UNCHANGED <<focus, operationState>>
       /\ IF ~Held("resources", focus.guid)
          THEN /\ UNCHANGED <<gens, guidToGenId, heap, pending, budget>>
               /\ Report("loadServerConfiguration", "", FALSE, FALSE)
          ELSE LET existingServer == Entity("resources", focus.guid) IN
               IF ~Has(existingServer, "platforms") \/ Len(existingServer.platforms) = 0
               THEN /\ UNCHANGED <<gens, guidToGenId, heap, pending, budget>>
                    /\ Report("loadServerConfiguration", "", TRUE, FALSE)
               ELSE /\ CanIssue
                    /\ budget' = budget - 1
                    /\ SameGraph(callPOST("load server configuration",
                                          [platformName |-> existingServer.platforms[1]]))
                    /\ Report("loadServerConfiguration", "", FALSE, FALSE)

\* Configuration values.  A JSON value is a number, null, an object or an
\* array; undefined is what reading an absent property gives.  props lists
\* the properties of an object or array in the order Object.keys gives them.
Num(n) == [type |-> "number", val |-> n, props |-> <<>>]

JsNull == [type |-> "null", val |-> 0, props |-> <<>>]

JsUndefined == [type |-> "undefined", val |-> 0, props |-> <<>>]

Obj(props) == [type |-> "object", val |-> 0, props |-> props]

Arr(elems) ==
  [type |-> "array", val |-> 0,
   props |-> [i \in 1..Len(elems) |->
                [name |-> IF i = 1 THEN "0" ELSE "1", value |-> elems[i]]]]

\* typeof value
typeof(value) ==
  CASE value.type = "number" -> "number"
    [] value.type = "undefined" -> "undefined"
    [] OTHER -> "object"

\* Object.keys(value) throws a TypeError for null and undefined.
KeysThrow(value) == value.type \in {"null", "undefined"}

\* Object.keys(value): the property names of an object, the indices of an
\* array, nothing for a number.
ObjectKeys(value) == [i \in 1..Len(value.props) |-> value.props[i].name]

\* value[propName]
index(value, propName) ==
  IF \E i \in 1..Len(value.props) : value.props[i].name = propName
  THEN value.props[CHOOSE i \in 1..Len(value.props) : value.props[i].name = propName].value
  ELSE JsUndefined

\* Object.assign([], first, second): second is copied over the leading
\* elements of first.
ArrayAssign(first, second) ==
  [i \in 1..(IF Len(first) > Len(second) THEN Len(first) ELSE Len(second)) |->
     IF i <= Len(second) THEN second[i] ELSE first[i]]

\* The property names of the modelled configurations, in the order of
\* Array.prototype.sort.
SortedNames == <<"0", "1", "a", "b", "c", "class">>

Same(name, names) == SelectSeq(names, LAMBDA n : n = name)

\* names.sort()
Sort(names) ==
  Same(SortedNames[1], names) \o Same(SortedNames[2], names) \o Same(SortedNames[3], names)
    \o Same(SortedNames[4], names) \o Same(SortedNames[5], names)
    \o Same(SortedNames[6], names)

\* stored === active
StrictEquals(stored, active) ==
  /\ stored.type = active.type
  /\ stored.type \in {"number", "null", "undefined"}
  /\ stored.val = active.val

\* flattenPropertyPath for a non-empty path
RECURSIVE flattenPropertyPath(_)
flattenPropertyPath(propPath) ==
  IF Len(propPath) = 1
  THEN propPath[1]
  ELSE flattenPropertyPath(SubSeq(propPath, 1, Len(propPath) - 1))
         \o "." \o propPath[Len(propPath)]

excludePropsNone == {}

excludeProps == {"class"}

\* compareConfigurations: matched, the mismatch list mpn as it stands when
\* the call ends, and whether the call ended in a TypeError.
RECURSIVE compareConfigurations(_, _, _, _)
RECURSIVE compareProperties(_, _, _, _, _)
compareConfigurations(storedConfig, activeConfig, propertyPath, mpn) ==
  IF KeysThrow(activeConfig) \/ KeysThrow(storedConfig)
  THEN [matched |-> TRUE, mpn |-> mpn, threw |-> TRUE]
  ELSE compareProperties(Sort(ArrayAssign(ObjectKeys(activeConfig), ObjectKeys(storedConfig))),
                         storedConfig, activeConfig, propertyPath,
                         [matched |-> TRUE, mpn |-> mpn, threw |-> FALSE])

\* The forEach over configPropNamesSorted, from the result so far.
compareProperties(configPropNamesSorted, storedConfig, activeConfig, propertyPath, sofar) ==
  IF configPropNamesSorted = <<>> \/ sofar.threw
  THEN sofar
  ELSE LET propName == Head(configPropNamesSorted)
           localPropertyPath == Append(propertyPath, propName)
           then ==
             IF propName \in excludeProps
             THEN sofar
             ELSE IF typeof(index(activeConfig, propName)) = "object"
             THEN LET match == compareConfigurations(index(storedConfig, propName),
                                                     index(activeConfig, propName),
                                                     localPropertyPath, sofar.mpn)
                  IN [matched |-> sofar.matched /\ match.matched,
                      mpn |-> match.mpn, threw |-> match.threw]
             ELSE IF StrictEquals(index(storedConfig, propName), index(activeConfig, propName))
             THEN sofar
             ELSE [matched |-> FALSE,
                   mpn |-> Append(sofar.mpn, flattenPropertyPath(localPropertyPath)),
                   threw |-> FALSE]
       IN compareProperties(Tail(configPropNamesSorted), storedConfig, activeConfig,
                            propertyPath, then)

\* The property paths of the modelled configurations.
PropertyPaths ==
  {<<n>> : n \in Range(SortedNames)}
    \cup {<<n, m>> : n \in Range(SortedNames), m \in Range(SortedNames)}

\* propName.split('.')
split(propName) == CHOOSE path \in PropertyPaths : flattenPropertyPath(path) = propName

\* path.reduce(index, config): reading a property of null or undefined on
\* the way throws.
RECURSIVE reduceThrows(_, _)
reduceThrows(path, config) ==
  /\ path # <<>>
  /\ \/ KeysThrow(config)
     \/ reduceThrows(Tail(path), index(config, Head(path)))

RECURSIVE reduce(_, _)
reduce(path, config) ==
  IF path = <<>> THEN config ELSE reduce(Tail(path), index(config, Head(path)))

\* The differences object built from the mismatch list.
Differences(mpn, storedConfig, activeConfig) ==
  [propName \in Range(mpn) |->
     [active |-> reduce(split(propName), activeConfig),
      stored |-> reduce(split(propName), storedConfig)]]

\* What the callback did with a response that carried both configurations.
Compared(storedConfig, activeConfig, result, threw) ==
  lastOp' = [compared |-> TRUE, stored |-> storedConfig, active |-> activeConfig,
             matched |-> result.matched, mpn |-> result.mpn]
              @@ [Quiet("_loadServerConfiguration") EXCEPT !.threw = threw]

\* _loadServerConfiguration(json)
_loadServerConfiguration(slot, json) ==
  /\ UNCHANGED <<focus, operationState>>
  /\ SameGraph(Answered(slot))
  /\ IF Truthy(json) /\ json[1].relatedHTTPCode = 200 /\ Has(json[1], "storedConfig")
     THEN IF Has(json[1], "activeConfig")
          THEN LET storedConfig == json[1].storedConfig
                   activeConfig == json[1].activeConfig
                   result == compareConfigurations(storedConfig, activeConfig, <<>>, <<>>)
                   threw ==
                     \/ result.threw
                     \/ /\ ~result.matched
                        /\ \E i \in 1..Len(result.mpn) :
                             \/ reduceThrows(split(result.mpn[i]), storedConfig)
                             \/ reduceThrows(split(result.mpn[i]), activeConfig)
               IN /\ Compared(storedConfig, activeConfig, result, threw)
                  /\ serverConfig' =
                       IF threw
                       THEN serverConfig
                       ELSE [stored |-> storedConfig,
                             active |-> activeConfig,
                             matching |-> IF result.matched THEN "true" ELSE "false",
                             diffs |-> IF result.matched
                                       THEN <<>>
                                       ELSE Differences(result.mpn, storedConfig,
                                                        activeConfig),
                             loading |-> "loaded"]
          ELSE /\ serverConfig' = [stored |-> json[1].storedConfig, active |-> Null,
                                   matching |-> "true", diffs |-> Null,
                                   loading |-> "loaded"]
               /\ Report("_loadServerConfiguration", "", FALSE, FALSE)
     ELSE /\ UNCHANGED serverConfig
          /\ Unprocessed("_loadServerConfiguration", "load server configuration", FALSE,
                         json, "storedConfig")

----------------------------------------------------------------------------
\* clear and removeGen

\* clear without the stamp of the empty map.
clearKeepingMap ==
  /\ clearFocusResource
  /\ UNCHANGED guidToGenId
  /\ Commit(heap, <<>>, pending)
  /\ UNCHANGED operationState
  /\ lastOp' = [Quiet("clear") EXCEPT !.cleared = TRUE]

\* clear: the focus and the server configuration are reset, gens and
\* guidToGenId are replaced by an empty array and an empty map.
clear ==
  /\ clearFocusResource
  /\ guidToGenId' = <<>>
  /\ Commit(heap, <<>>, pending)
  /\ UNCHANGED operationState
  /\ lastOp' = [Quiet("clear") EXCEPT !.cleared = TRUE]

\* removeGenMap with the relationship keys left in the map.
removeGenMapResourcesOnly(removedGen, map) ==
  [g \in DOMAIN map \ DOMAIN removedGen.resources |-> map[g]]

\* The guidToGenId that removeGen stamps: the entries of the removed
\* generation's resources and relationships are deleted from a clone.
removeGenMap(removedGen, map) ==
  LET gone == DOMAIN removedGen.resources \cup DOMAIN removedGen.relationships
  IN [g \in DOMAIN map \ gone |-> map[g]]

\* focusInRemovedGen with the focus cleared whenever a generation is removed.
focusInRemovedGenAlways(removedGen, focusGuid) == TRUE

\* removedGen.resources[focus.guid] !== undefined
focusInRemovedGen(removedGen, focusGuid) == focusGuid \in DOMAIN removedGen.resources

\* removeGen; on an empty gens newList.pop() is undefined and reading its
\* resources throws before any setter is called.
removeGen ==
  IF Len(gens) = 0
  THEN /\ UNCHANGED <<focus, serverConfig, operationState, gens, guidToGenId, heap, pending>>
       /\ Report("removeGen", "", FALSE, TRUE)
  ELSE LET removedGen == heap[gens[Len(gens)]] IN
       /\ IF focusInRemovedGen(removedGen, focus.guid)
          THEN /\ focus' = [category |-> "", guid |-> ""]
               /\ serverConfig' = [stored |-> Null, active |-> Null, loading |-> "init"]
               /\ operationState' = [state |-> "inactive", name |-> ""]
          ELSE UNCHANGED <<focus, serverConfig, operationState>>
       /\ guidToGenId' = removeGenMap(removedGen, guidToGenId)
       /\ Commit(heap, SubSeq(gens, 1, Len(gens) - 1), pending)
       /\ lastOp' = [Quiet("removeGen") EXCEPT
                       !.removed = [resources |-> DOMAIN removedGen.resources,
                                    relationships |-> DOMAIN removedGen.relationships]]

----------------------------------------------------------------------------
\* The provider

Start(requests) ==
  /\ focus = [category |-> "", guid |-> ""]
  /\ serverConfig = [stored |-> Null, active |-> Null, matching |-> TRUE,
                     diffs |-> Null, loading |-> "init"]
  /\ operationState = [state |-> "inactive", name |-> ""]
  /\ gens = <<>>
  /\ guidToGenId = <<>>
  /\ heap = <<>>
  /\ pending = <<>>
  /\ budget = requests
  /\ lastOp = [op |-> "init", reported |-> "", alerted |-> FALSE, threw |-> FALSE,
               called |-> FALSE, update |-> <<>>,
               removed |-> [resources |-> {}, relationships |-> {}],
               cleared |-> FALSE, arg |-> "",
               selected |-> [category |-> "", guid |-> ""], prevFocus |-> "",
               response |-> Complete]

Init == Start(MaxRequests)

InitDeep == Start(DeepRequests)

\* The platform selector loads a platform by name.
SelectPlatform ==
  \E platformName \in PlatformNames :
    /\ CanIssue
    /\ budget' = budget - 1
    /\ SameGraph(loadPlatform(platformName))
    /\ UNCHANGED <<focus, serverConfig, operationState>>
    /\ Report("loadPlatform", "", FALSE, FALSE)

RespondLoadPlatform ==
  \E slot \in 1..Len(pending) :
    /\ pending[slot].kind = "load platform"
    /\ \E json \in PlatformResponses(pending[slot]) : _loadPlatform(slot, json)
    /\ UNCHANGED budget

\* A platform's active / known servers button.
GetActiveServers ==
  \E platformName \in PlatformNames :
    getServers("get active servers", genPlatformGUID(platformName))

GetKnownServers ==
  \E platformName \in PlatformNames :
    getServers("get known servers", genPlatformGUID(platformName))

RespondGetActiveServers ==
  \E slot \in 1..Len(pending) :
    /\ pending[slot].kind = "get active servers"
    /\ \E json \in ServersResponses(pending[slot]) :
         _getServers("_getActiveServers", "get active servers", slot, json)
    /\ UNCHANGED budget

RespondGetKnownServers ==
  \E slot \in 1..Len(pending) :
    /\ pending[slot].kind = "get known servers"
    /\ \E json \in ServersResponses(pending[slot]) :
         _getServers("_getKnownServers", "get known servers", slot, json)
    /\ UNCHANGED budget

\* The server selector loads a configured server.
SelectServer ==
  \E serverName \in ServerNames, platformName \in PlatformNames :
    loadServerFromSelector(serverName, platformName, serverName, "configured")

RespondLoadServer ==
  \E slot \in 1..Len(pending) :
    /\ pending[slot].kind = "load server"
    /\ \E json \in ServerResponses(pending[slot]) : _loadServer(slot, json)
    /\ UNCHANGED budget

LoadCohort ==
  \E serverName \in ServerNames, cohortName \in CohortNames, configured \in BOOLEAN :
    loadCohort(serverName, cohortName, configured) /\ UNCHANGED budget

\* A service of the focused server's list is expanded.
LoadService ==
  \E serverInstanceName \in ServerNames, serviceFullName \in ServiceFullNames :
    /\ loadService(serverInstanceName, serviceFullName, Quiet("loadService"),
                   [category |-> "", guid |-> ""])
    /\ UNCHANGED <<focus, serverConfig, operationState>>

RespondLoadService ==
  \E slot \in 1..Len(pending) :
    /\ pending[slot].kind = "load service"
    /\ \E json \in ServiceResponses(pending[slot]) : _loadService(slot, json)
    /\ UNCHANGED budget

\* The service instances held in the graph.
ServiceInstanceGUIDs ==
  {guid \in DOMAIN guidToGenId :
     /\ guidToGenId[guid] <= Len(gens)
     /\ guid \in DOMAIN heap[gens[guidToGenId[guid]]].resources
     /\ heap[gens[guidToGenId[guid]]].resources[guid].category = "service-instance"}

\* The partner OMAS of a service is expanded.
LoadPartnerOMAS ==
  \E guid \in ServiceInstanceGUIDs : loadPartnerOMAS(guid) /\ UNCHANGED budget

\* The guids a component can hand to changeFocusResource: those of the
\* resources the diagram draws from gens, and undefined.
SelectableGUIDs ==
  UNION {DOMAIN heap[gens[i]].resources : i \in 1..Len(gens)} \cup {Undefined}

ChangeFocus == \E guid \in SelectableGUIDs : changeFocusResource(guid)

\* The links the diagram draws from gens.
SelectableLinks == UNION {DOMAIN heap[gens[i]].relationships : i \in 1..Len(gens)}

SelectTarget == \E relationshipGUID \in SelectableLinks : selectTargetResource(relationshipGUID)

LoadServerConfiguration == loadServerConfiguration

Clear == clear /\ UNCHANGED budget

RemoveGen == removeGen /\ UNCHANGED budget

\* The operations on platforms, servers and cohorts, with focus changes, clear
\* and removeGen.
NextGraph ==
  \/ SelectPlatform
  \/ RespondLoadPlatform
  \/ GetActiveServers
  \/ GetKnownServers
  \/ RespondGetActiveServers
  \/ RespondGetKnownServers
  \/ SelectServer
  \/ RespondLoadServer
  \/ LoadCohort
  \/ ChangeFocus
  \/ Clear
  \/ RemoveGen

Next ==
  \/ NextGraph
  \/ LoadService
  \/ RespondLoadService
  \/ LoadPartnerOMAS
  \/ SelectTarget
  \/ LoadServerConfiguration

Spec == Init /\ [][Next]_vars

\* The platform, server and cohort operations with one more request allowed.
SpecDeep == InitDeep /\ [][NextGraph]_vars

\* The provider after loadPlatform("p1") was issued from the platform
\* selector and answered with a platform overview: generation 1 holds the
\* platform, which has the focus.
InitPlatform ==
  /\ focus = [category |-> "platform", guid |-> "PLATFORM_p1"]
  /\ serverConfig = [stored |-> Null, active |-> Null, loading |-> "init"]
  /\ operationState = [state |-> "inactive", name |-> ""]
  /\ gens = <<1>>
  /\ guidToGenId = [g \in {"PLATFORM_p1"} |-> 1]
  /\ heap = << [resources |->
                  [g \in {"PLATFORM_p1"} |->
                     [guid |-> "PLATFORM_p1", gen |-> 1, category |-> "platform",
                      platformName |-> "p1", platformRootURL |-> "url_p1"]],
                relationships |-> <<>>,
                requestSummary |-> [serverInstanceName |-> Null, platformName |-> "p1",
                                    operation |-> "load platform", serverName |-> Null]] >>
  /\ pending = <<>>
  /\ budget = MaxRequests
  /\ lastOp = [op |-> "_loadPlatform", reported |-> "", alerted |-> FALSE, threw |-> FALSE,
               called |-> TRUE,
               update |-> [g \in {"PLATFORM_p1"} |->
                             [guid |-> "PLATFORM_p1", category |-> "platform",
                              platformName |-> "p1", platformRootURL |-> "url_p1"]],
               removed |-> [resources |-> {}, relationships |-> {}],
               cleared |-> FALSE, arg |-> "",
               selected |-> [category |-> "", guid |-> ""], prevFocus |-> "",
               response |-> Complete]

\* The provider from the moment platform p1 is in the graph.
SpecPlatform == InitPlatform /\ [][Next]_vars

\* The provider after a late platform response wrote back the gens of its
\* render: loadServerFromSelector("s1", "p1", "s1", ...) and loadPlatform("p1")
\* were both issued while generation 1 held platform p1; the server response
\* added generation 2 (the server and its platform link), then the platform
\* response merged p1 in place and called setGens with the one generation of
\* its render, leaving guidToGenId alone.
InitStale ==
  /\ focus = [category |-> "platform", guid |-> "PLATFORM_p1"]
  /\ serverConfig = [stored |-> Null, active |-> Null, loading |-> "init"]
  /\ operationState = [state |-> "inactive", name |-> ""]
  /\ gens = <<1>>
  /\ guidToGenId = [g \in {"PLATFORM_p1"} |-> 1] @@
                   [g \in {"SERVER_INSTANCE_s1", "PLATFORM_TO_SERVER_s1@p1"} |-> 2]
  /\ heap = << [resources |->
                  [g \in {"PLATFORM_p1"} |->
                     [guid |-> "PLATFORM_p1", gen |-> 1, category |-> "platform",
                      platformName |-> "p1", platformRootURL |-> "url_p1"]],
                relationships |-> <<>>,
                requestSummary |-> [serverInstanceName |-> Null, platformName |-> "p1",
                                    operation |-> "load platform", serverName |-> Null]] >>
  /\ pending = <<>>
  /\ budget = MaxRequests
  /\ lastOp = [op |-> "_loadPlatform", reported |-> "", alerted |-> FALSE, threw |-> FALSE,
               called |-> TRUE,
               update |-> [g \in {"PLATFORM_p1"} |->
                             [guid |-> "PLATFORM_p1", category |-> "platform",
                              platformName |-> "p1", platformRootURL |-> "url_p1"]],
               removed |-> [resources |-> {}, relationships |-> {}],
               cleared |-> FALSE, arg |-> "",
               selected |-> [category |-> "", guid |-> ""],
               prevFocus |-> "SERVER_INSTANCE_s1",
               response |-> Complete]

\* The provider from the moment a late response left guidToGenId ahead of gens.
SpecStale == InitStale /\ [][Next]_vars

\* The provider after the servers s1 and s2 of platform p1 were loaded from
\* the selector and the integration service "svc full" of each was loaded,
\* every response processed before the next request was issued: generations
\* 1 and 2 hold the servers, generations 3 and 4 the service instances svc@s1
\* and svc@s2 with their server links; the service loaded last has the focus.
InitServices ==
  LET server(sn) ==
        [serverInstanceName |-> sn, guid |-> genServerInstanceGUID(sn),
         category |-> "server-instance", platformName |-> "p1",
         platformRootURL |-> "url_p1",
         description |-> "Loaded by " \o sn \o " server link. configured",
         serverName |-> sn, serverOrigin |-> "origin",
         serverClassification |-> "classification",
         cohortDetails |-> [c \in CohortNames |-> "CONNECTED"],
         serverStatus |-> "status", serverServicesList |-> <<>>,
         integrationServices |-> RegisteredServices]
      serverRequest(sn) ==
        [serverInstanceName |-> sn, platformName |-> "p1", description |-> "configured",
         serverName |-> sn]
      serviceRequest(sn) ==
        [serverInstanceName |-> sn, platformName |-> "p1", serverName |-> sn,
         serviceURLMarker |-> "svc"]
      config == CHOOSE sd \in ServiceDetails(serviceRequest("s1")) : TRUE
      service(sn) ==
        [guid |-> genServiceInstanceGUID("svc@" \o sn), category |-> "service-instance",
         serverInstanceName |-> sn, serviceName |-> "svc",
         serviceConfig |-> config.integrationServiceConfig]
      link(sn) ==
        [category |-> "server-service-edge", serverCohortName |-> "svc@" \o sn,
         guid |-> "SERVER_SERVICE_svc@" \o sn, serverInstanceName |-> sn,
         serviceInstanceName |-> "svc@" \o sn,
         source |-> genServerInstanceGUID(sn),
         target |-> genServiceInstanceGUID("svc@" \o sn)]
      stamped(obj, genId) == ObjectAssign(obj, [gen |-> genId])
      serverGen(sn, genId) ==
        [requestSummary |-> serverRequest(sn),
         resources |-> [g \in {genServerInstanceGUID(sn)} |-> stamped(server(sn), genId)],
         relationships |-> <<>>]
      serviceGen(sn, genId) ==
        [requestSummary |-> serviceRequest(sn),
         resources |-> [g \in {genServiceInstanceGUID("svc@" \o sn)} |->
                          stamped(service(sn), genId)],
         relationships |-> [g \in {"SERVER_SERVICE_svc@" \o sn} |->
                              stamped(link(sn), genId)]]
  IN
  /\ focus = [category |-> "service-instance", guid |-> "SERVICE_INSTANCE_svc@s2"]
  /\ serverConfig = [stored |-> Null, active |-> Null, matching |-> TRUE,
                     diffs |-> Null, loading |-> "init"]
  /\ operationState = [state |-> "inactive", name |-> ""]
  /\ gens = <<1, 2, 3, 4>>
  /\ guidToGenId = [g \in {"SERVER_INSTANCE_s1"} |-> 1] @@
                   [g \in {"SERVER_INSTANCE_s2"} |-> 2] @@
                   [g \in {"SERVICE_INSTANCE_svc@s1", "SERVER_SERVICE_svc@s1"} |-> 3] @@
                   [g \in {"SERVICE_INSTANCE_svc@s2", "SERVER_SERVICE_svc@s2"} |-> 4]
  /\ heap = << serverGen("s1", 1), serverGen("s2", 2),
               serviceGen("s1", 3), serviceGen("s2", 4) >>
  /\ pending = <<>>
  /\ budget = ServicesRequests
  /\ lastOp = [op |-> "_loadService", reported |-> "", alerted |-> FALSE, threw |-> FALSE,
               called |-> TRUE,
               update |-> [g \in {"SERVICE_INSTANCE_svc@s2"} |-> service("s2")] @@
                          [g \in {"SERVER_SERVICE_svc@s2"} |-> link("s2")],
               removed |-> [resources |-> {}, relationships |-> {}],
               cleared |-> FALSE, arg |-> "",
               selected |-> [category |-> "", guid |-> ""],
               prevFocus |-> "SERVICE_INSTANCE_svc@s1",
               response |-> Complete]

\* The operations on servers and their services, and the removal of the
\* latest generation.
NextServices ==
  \/ SelectServer
  \/ RespondLoadServer
  \/ LoadService
  \/ RespondLoadService
  \/ LoadPartnerOMAS
  \/ RemoveGen

\* The provider from the moment the same integration service of two servers
\* is in the graph.
SpecServices == InitServices /\ [][NextServices]_vars

\* The numbers, null and the flat objects and arrays a property can hold.
Leaves == {Num(1), Num(2), JsNull}

Nested ==
  { Obj(<<[name |-> "b", value |-> v]>>) : v \in Leaves }
    \cup { Obj(<<[name |-> "class", value |-> c], [name |-> "b", value |-> Num(1)]>>) :
             c \in {Num(1), Num(2)} }
    \cup { Arr(<<Num(1)>>), Arr(<<Num(2)>>) }

\* A property of a configuration: absent, or name with one of values.
Property(name, values) == {<<>>} \cup { <<[name |-> name, value |-> v]>> : v \in values }

\* The configurations a view service can return: properties a, b, c and
\* class, each present or not.
Configurations ==
  { Obj(a \o b \o c \o class) :
      a \in Property("a", Leaves \cup Nested),
      b \in Property("b", {Num(1), Num(2)}),
      c \in Property("c", {JsNull}),
      class \in Property("class", {Num(1)}) }

\* The request of loadServerConfiguration for server s1 on platform p1.
ConfigurationRequest ==
  [kind |-> "load server configuration",
   body |-> [serverName |-> "s1", platformName |-> "p1"],
   viewGens |-> <<>>, viewMap |-> <<>>, selected |-> [category |-> "", guid |-> ""]]

\* json values handed to _loadServerConfiguration: both configurations, the
\* stored one only (a stopped server), or a failure.
ConfigurationResponses(req) ==
  { << [relatedHTTPCode |-> 200, requestSummary |-> RequestSummaryOf(req),
        storedConfig |-> stored, activeConfig |-> active] >> :
      stored \in Configurations, active \in Configurations }
    \cup { << [relatedHTTPCode |-> 200, requestSummary |-> RequestSummaryOf(req),
               storedConfig |-> stored] >> : stored \in {Obj(<<>>)} }
    \cup FailedResponses(req)

\* A configuration request is in flight and its response json has arrived.
InitCompare ==
  /\ focus = [category |-> "server-instance", guid |-> "SERVER_INSTANCE_s1"]
  /\ serverConfig = [stored |-> Null, active |-> Null, matching |-> "true",
                     diffs |-> Null, loading |-> "loading"]
  /\ operationState = [state |-> "inactive", name |-> ""]
  /\ gens = <<>>
  /\ guidToGenId = <<>>
  /\ heap = <<>>
  /\ \E json \in ConfigurationResponses(ConfigurationRequest) :
       pending = <<[ConfigurationRequest EXCEPT !.body = [json |-> json] @@ @]>>
  /\ budget = 0
  /\ lastOp = [op |-> "init"]

RespondLoadServerConfiguration ==
  \E slot \in 1..Len(pending) :
    /\ pending[slot].kind = "load server configuration"
    /\ _loadServerConfiguration(slot, pending[slot].body.json)
    /\ UNCHANGED budget

NextCompare == RespondLoadServerConfiguration

\* The configuration callback applied to every modelled response.
SpecCompare == InitCompare /\ [][NextCompare]_vars

----------------------------------------------------------------------------
\* Properties

\* The guids a generation object holds.
GuidsOf(gen) == DOMAIN gen.resources \cup DOMAIN gen.relationships

\* The generation object at 1-based position genId of gens.
GenAt(genId) == heap[gens[genId]]

\* The step was a call of updateGens that ran to its setters.
Updated == lastOp'.called /\ ~lastOp'.threw

\* C1: every key of guidToGenId maps to a number g with 1 <= g <= number of
\* gens, and generation g holds that guid in its resources or relationships.
C1_IndexPointsIntoGens ==
  \A guid \in DOMAIN guidToGenId :
    /\ guidToGenId[guid] \in 1..Len(gens)
    /\ guid \in GuidsOf(GenAt(guidToGenId[guid]))

\* C2: an updateGens call that supplies N >= 1 guids that are not in
\* guidToGenId makes gens longer by exactly one; the new last generation
\* holds exactly those guids and the call's requestSummary, and each of them
\* is indexed to the new generation number.
C2_OneNewGenPerCall ==
  [][ LET new == DOMAIN lastOp'.update \ DOMAIN guidToGenId IN
      (Updated /\ new # {}) =>
        /\ Len(gens') = Len(gens) + 1
        /\ GuidsOf(heap'[gens'[Len(gens')]]) = new
        /\ \A guid \in new : /\ guid \in DOMAIN guidToGenId'
                             /\ guidToGenId'[guid] = Len(gens') ]_vars

\* C3: an updateGens call in which every supplied guid is already in
\* guidToGenId (an empty update included) leaves the number of gens and
\* guidToGenId as they were.
C3_NoNewGenWithoutNewGuid ==
  [][ (lastOp'.called /\ DOMAIN lastOp'.update \subseteq DOMAIN guidToGenId) =>
        /\ Len(gens') = Len(gens)
        /\ guidToGenId' = guidToGenId ]_vars

\* C4: no guid is held by more than one generation of gens.
C4_NoGuidInTwoGens ==
  \A i, j \in 1..Len(gens) :
    i # j => GuidsOf(GenAt(i)) \cap GuidsOf(GenAt(j)) = {}

\* C5: an updateGens call that supplies a guid which is in guidToGenId
\* before and after the call leaves its generation number unchanged.
C5_GenNumberStable ==
  [][ lastOp'.called =>
        \A guid \in DOMAIN lastOp'.update :
          (guid \in DOMAIN guidToGenId /\ guid \in DOMAIN guidToGenId') =>
            guidToGenId'[guid] = guidToGenId[guid] ]_vars

\* C6: a step that calls updateGens keeps every generation of gens at its
\* position with the same resource and relationship guids.
C6_AppendOnlyUnderUpdates ==
  [][ lastOp'.called =>
        /\ Len(gens') >= Len(gens)
        /\ \A i \in 1..Len(gens) :
             /\ DOMAIN heap'[gens'[i]].resources = DOMAIN heap[gens[i]].resources
             /\ DOMAIN heap'[gens'[i]].relationships = DOMAIN heap[gens[i]].relationships
    ]_vars

\* The entity a generation object holds under guid.
EntityOf(gen, guid) ==
  IF guid \in DOMAIN gen.resources THEN gen.resources[guid] ELSE gen.relationships[guid]

\* C7: when updateGens is given a guid that is indexed to a stored entity,
\* the entity stays in its generation and becomes the stored entity with the
\* fields of the update laid over it: fields of the update take the update's
\* values, the other fields keep their values.
C7_MergeFieldByField ==
  [][ lastOp'.called =>
        \A guid \in DOMAIN lastOp'.update :
          ( /\ guid \in DOMAIN guidToGenId
            /\ guidToGenId[guid] \in 1..Len(gens)
            /\ guid \in GuidsOf(heap[gens[guidToGenId[guid]]]) ) =>
          LET genId == guidToGenId[guid] IN
          /\ guid \in DOMAIN guidToGenId'
          /\ guidToGenId'[guid] = genId
          /\ genId <= Len(gens')
          /\ guid \in GuidsOf(heap'[gens'[genId]])
          /\ EntityOf(heap'[gens'[genId]], guid) =
               ObjectAssign(EntityOf(heap[gens[genId]], guid), lastOp'.update[guid])
    ]_vars

\* C8: removeGen on a non-empty gens drops the last generation and nothing
\* else, deletes from guidToGenId exactly the guids of the removed
\* generation's resources and relationships, and leaves every other index
\* entry as it was.
C8_RemoveGenRetractsIndex ==
  [][ (lastOp'.op = "removeGen" /\ ~lastOp'.threw) =>
        /\ Len(gens) > 0
        /\ Len(gens') = Len(gens) - 1
        /\ \A i \in 1..Len(gens') : heap'[gens'[i]] = heap[gens[i]]
        /\ DOMAIN guidToGenId' = DOMAIN guidToGenId \ GuidsOf(heap[gens[Len(gens)]])
        /\ \A guid \in DOMAIN guidToGenId' : guidToGenId'[guid] = guidToGenId[guid]
    ]_vars

\* removeGen has removed a generation holding a resource and a relationship
\* while other guids stay indexed.
C8_Witness ==
  /\ lastOp.op = "removeGen"
  /\ lastOp.removed.resources # {}
  /\ lastOp.removed.relationships # {}
  /\ DOMAIN guidToGenId # {}

\* C9: removeGen empties the focus when the removed generation's resources
\* hold the focus guid, and otherwise leaves the focus as it was.
C9_RemoveGenFocus ==
  [][ (lastOp'.op = "removeGen" /\ ~lastOp'.threw) =>
        IF focus.guid \in DOMAIN heap[gens[Len(gens)]].resources
        THEN focus' = [category |-> "", guid |-> ""]
        ELSE focus' = focus ]_vars

\* removeGen has removed the generation of the focused resource.
C9_Witness ==
  /\ lastOp.op = "removeGen"
  /\ lastOp.prevFocus # ""
  /\ lastOp.prevFocus \in lastOp.removed.resources
  /\ focus.guid = ""

\* C10: the two focus fields are empty together or not at all, and after
\* clearFocusResource both are empty.
C10_FocusClearedAtomically ==
  /\ (focus.category = "") <=> (focus.guid = "")
  /\ lastOp.cleared => focus = [category |-> "", guid |-> ""]

\* clearFocusResource has run while a resource was focused.
C10_Witness ==
  /\ lastOp.cleared
  /\ lastOp.prevFocus # ""
  /\ focus.guid = ""

\* C11: changeFocusResource called with the guid of the focused resource
\* empties the focus and issues no request.
C11_SelectingFocusClears ==
  [][ ( /\ lastOp'.op = "changeFocusResource"
        /\ focus.guid # ""
        /\ lastOp'.arg = focus.guid ) =>
        /\ focus' = [category |-> "", guid |-> ""]
        /\ Len(pending') = Len(pending) ]_vars

\* The request kind that reloads a resource of a category.
ReloadKind(category) ==
  CASE category = "platform" -> "load platform"
    [] category = "server-instance" -> "load server"
    [] category = "service-instance" -> "load service"
    [] OTHER -> ""

\* C12: changeFocusResource called with the guid of an indexed resource that
\* is not the focus and is a platform, a server instance or a service
\* instance issues exactly one reload request of the matching kind, and the
\* successful response to that request leaves the focus on that resource.
C12_SelectingReloads ==
  [][ /\ ( /\ lastOp'.op = "changeFocusResource"
           /\ Held("resources", lastOp'.arg)
           /\ lastOp'.arg # focus.guid
           /\ ReloadKind(Entity("resources", lastOp'.arg).category) # "" ) =>
           /\ Len(pending') = Len(pending) + 1
           /\ pending'[Len(pending')].kind =
                ReloadKind(Entity("resources", lastOp'.arg).category)
      /\ ( /\ lastOp'.called
           /\ ~lastOp'.threw
           /\ lastOp'.selected.guid # "" ) =>
           focus' = lastOp'.selected ]_vars

\* C13: changeFocusResource called with the guid of a cohort resource changes
\* neither focus, operationState, serverConfig, gens nor guidToGenId and
\* issues no request.
C13_SelectingCohortDoesNothing ==
  [][ ( /\ lastOp'.op = "changeFocusResource"
        /\ Held("resources", lastOp'.arg)
        /\ Entity("resources", lastOp'.arg).category = "cohort" ) =>
        /\ UNCHANGED <<focus, operationState, serverConfig, gens, guidToGenId>>
        /\ pending' = pending ]_vars

\* A cohort resource of the graph has just been selected.
C13_Witness ==
  /\ lastOp.op = "changeFocusResource"
  /\ Held("resources", lastOp.arg)
  /\ Entity("resources", lastOp.arg).category = "cohort"

\* The callbacks that process a retrieved platform, server or service.
LoadCallbacks == {"_loadPlatform", "_loadServer", "_loadService"}

\* C14, as stated: the focus changes only when a resource is selected (the
\* focus becomes that resource, at the latest when its reload is answered),
\* when a selection empties the focus, or when the
\* generation holding the focused resource is removed (the focus is emptied);
\* no other operation changes focus.
C14_OnlySelectionAndRemovalChangeFocus ==
  [][ focus' # focus =>
        \/ /\ lastOp'.op = "changeFocusResource"
           /\ focus'.guid = lastOp'.arg
        \/ /\ lastOp'.op \in LoadCallbacks
           /\ lastOp'.selected.guid # ""
           /\ focus' = lastOp'.selected
        \/ /\ lastOp'.op = "changeFocusResource"
           /\ focus' = [category |-> "", guid |-> ""]
        \/ /\ lastOp'.op = "removeGen"
           /\ focus.guid \in lastOp'.removed.resources
           /\ focus' = [category |-> "", guid |-> ""] ]_vars

\* C14, amended: the focus changes only when a callback processes a retrieved
\* platform, server or service (the focus becomes the retrieved resource,
\* whoever issued the request), when clearFocusResource runs (in clear, or in
\* changeFocusResource called with focus.instanceGUID), or when removeGen
\* removes the generation holding the focused resource (the focus is
\* emptied).  Every other operation leaves the focus as it is.
C14_FocusTransitions ==
  [][ focus' # focus =>
        \/ /\ lastOp'.op \in LoadCallbacks
           /\ lastOp'.called
           /\ ~lastOp'.threw
           /\ focus'.guid \in DOMAIN lastOp'.update
           /\ focus'.category = lastOp'.update[focus'.guid].category
           /\ focus'.category \in {"platform", "server-instance", "service-instance"}
        \/ /\ lastOp'.op \in {"clear", "changeFocusResource"}
           /\ lastOp'.cleared
           /\ focus' = [category |-> "", guid |-> ""]
        \/ /\ lastOp'.op = "removeGen"
           /\ focus.guid \in lastOp'.removed.resources
           /\ focus' = [category |-> "", guid |-> ""] ]_vars

\* The response to a load issued from a selector has moved the focus to the
\* retrieved resource.
C14_Witness ==
  /\ lastOp.op \in LoadCallbacks
  /\ lastOp.called
  /\ lastOp.selected.guid = ""
  /\ lastOp.prevFocus # ""
  /\ focus.guid # lastOp.prevFocus
  /\ focus.guid \in DOMAIN lastOp.update

\* _loadServerConfiguration has called compareConfigurations(lastOp.stored,
\* lastOp.active, [], mpn).
HasCompared == lastOp.op = "_loadServerConfiguration" /\ Has(lastOp, "compared")

Keys(value) == Range(ObjectKeys(value))

IsContainer(value) == value.type \in {"object", "array"}

\* C15: compareConfigurations(X, X, [], mpn) returns matched = true and
\* leaves mpn empty, for every configuration X.
C15_SelfComparisonMatches ==
  (HasCompared /\ lastOp.stored = lastOp.active) =>
    /\ ~lastOp.threw
    /\ lastOp.matched
    /\ lastOp.mpn = <<>>

\* stored and active have the same keys at every level, so that they can
\* differ only in the values of their leaves (numbers and nulls).
RECURSIVE SameKeys(_, _)
SameKeys(stored, active) ==
  IF IsContainer(stored) \/ IsContainer(active)
  THEN /\ stored.type = active.type
       /\ Keys(stored) = Keys(active)
       /\ \A name \in Keys(stored) : SameKeys(index(stored, name), index(active, name))
  ELSE TRUE

\* The dotted paths of the leaves in which stored and active differ, those
\* named class apart.
RECURSIVE DifferingLeaves(_, _, _)
DifferingLeaves(stored, active, propertyPath) ==
  UNION { IF IsContainer(index(stored, name))
          THEN DifferingLeaves(index(stored, name), index(active, name),
                               Append(propertyPath, name))
          ELSE IF index(stored, name) = index(active, name)
          THEN {}
          ELSE {flattenPropertyPath(Append(propertyPath, name))} :
          name \in Keys(stored) \ {"class"} }

\* C16: when stored and active have the same keys and differ only in leaf
\* values, compareConfigurations returns matched = false and mpn holds
\* exactly the dotted paths of the differing leaves, each once.
C16_DifferingLeavesListedOnce ==
  ( /\ HasCompared
    /\ SameKeys(lastOp.stored, lastOp.active)
    /\ DifferingLeaves(lastOp.stored, lastOp.active, <<>>) # {} ) =>
    /\ ~lastOp.threw
    /\ ~lastOp.matched
    /\ Range(lastOp.mpn) = DifferingLeaves(lastOp.stored, lastOp.active, <<>>)
    /\ Len(lastOp.mpn) = Cardinality(Range(lastOp.mpn))

\* value without the properties named class, at every level.
RECURSIVE WithoutClass(_)
WithoutClass(value) ==
  LET kept == SelectSeq(value.props, LAMBDA prop : prop.name # "class")
  IN [value EXCEPT !.props = [i \in 1..Len(kept) |->
                                [name |-> kept[i].name,
                                 value |-> WithoutClass(kept[i].value)]]]

\* The paths of the properties, at any level and not named class, that are
\* a key of stored or of active and whose values differ in more than
\* properties named class.
RECURSIVE DifferingProperties(_, _, _)
DifferingProperties(stored, active, propertyPath) ==
  UNION { IF WithoutClass(index(stored, name)) = WithoutClass(index(active, name))
          THEN {}
          ELSE {Append(propertyPath, name)}
                 \cup IF IsContainer(index(stored, name)) /\ IsContainer(index(active, name))
                      THEN DifferingProperties(index(stored, name), index(active, name),
                                               Append(propertyPath, name))
                      ELSE {} :
          name \in (Keys(stored) \cup Keys(active)) \ {"class"} }

\* The dotted paths of a property and of what is nested under it.
PathsAt(propertyPath) ==
  {flattenPropertyPath(propertyPath)}
    \cup {flattenPropertyPath(Append(propertyPath, name)) : name \in Range(SortedNames)}

\* C17: every property that is a key of stored or of active, at any level
\* and not named class, and whose values differ (a key present on one side
\* only included) makes matched false and has its path in mpn (its own, or
\* those of the differences under it).
C17_UnionOfKeysCompared ==
  HasCompared =>
    \A propertyPath \in DifferingProperties(lastOp.stored, lastOp.active, <<>>) :
      /\ ~lastOp.threw
      /\ ~lastOp.matched
      /\ Range(lastOp.mpn) \cap PathsAt(propertyPath) # {}

\* The dotted paths that end in class.
ClassPaths == {"class"} \cup {name \o ".class" : name \in Range(SortedNames)}

\* C18: no path in mpn ends in class, and configurations that differ only in
\* properties named class, at any level, are not reported as unmatched.
C18_ClassIgnored ==
  HasCompared =>
    /\ Range(lastOp.mpn) \cap ClassPaths = {}
    /\ WithoutClass(lastOp.stored) = WithoutClass(lastOp.active) =>
         (lastOp.threw \/ lastOp.matched)

\* Configurations that differ, in class properties only, have been compared.
C18_Witness ==
  /\ HasCompared
  /\ ~lastOp.threw
  /\ lastOp.stored # lastOp.active
  /\ index(index(lastOp.stored, "a"), "class") # index(index(lastOp.active, "a"), "class")
  /\ WithoutClass(lastOp.stored) = WithoutClass(lastOp.active)
  /\ lastOp.matched

\* C19: a property that is a key of stored only is compared with undefined
\* without recursion, even if its stored value is an object: its own path is
\* in mpn exactly once, no path nested under it is, and the call completes
\* without error.
C19_StoredOnlyPropertyListedOnce ==
  HasCompared =>
    \A name \in (Keys(lastOp.stored) \ Keys(lastOp.active)) \ {"class"} :
      /\ ~lastOp.threw
      /\ Len(Same(name, lastOp.mpn)) = 1
      /\ Range(lastOp.mpn) \cap (PathsAt(<<name>>) \ {name}) = {}

\* The label of the operation a response callback belongs to.
OperationLabel ==
  [_loadPlatform |-> "load platform",
   _getActiveServers |-> "get active servers",
   _getKnownServers |-> "get known servers",
   _loadServer |-> "load server",
   _loadServerConfiguration |-> "load server configuration",
   _loadService |-> "load service"]

\* The response is absent, has a code other than 200, or lacks its
\* requestSummary or its payload field.
FailedResponse(response) ==
  ~(response.present /\ response.ok /\ response.requestSummary /\ response.payload)

\* C20: every response callback treats a response that is absent, has a code
\* other than 200 or lacks requestSummary or the payload field in the same
\* way: reportFailedOperation is called with the label of the operation,
\* nothing else is raised, and gens and guidToGenId are not updated.
C20_FailuresReportedUniformly ==
  [][ ( /\ lastOp'.op \in DOMAIN OperationLabel
        /\ FailedResponse(lastOp'.response) ) =>
        /\ lastOp'.reported = OperationLabel[lastOp'.op]
        /\ ~lastOp'.alerted
        /\ ~lastOp'.called
        /\ guidToGenId' = guidToGenId
        /\ Len(gens') = Len(gens) ]_vars

\* The generations of the graph, oldest first, each with what it holds.
Graph == [i \in 1..Len(gens) |-> heap[gens[i]]]

\* C21: processing a response that is absent, has a code other than 200 or
\* lacks its payload leaves gens, guidToGenId and focus as they were, and no
\* request is issued again: only the answered request leaves the requests in
\* flight.
C21_FailedResponseLeavesState ==
  [][ ( /\ lastOp'.op \in DOMAIN OperationLabel
        /\ FailedResponse(lastOp'.response) ) =>
        /\ Graph' = Graph
        /\ guidToGenId' = guidToGenId
        /\ focus' = focus
        /\ Len(pending') = Len(pending) - 1
        /\ \E slot \in 1..Len(pending) :
             \A i \in 1..Len(pending') :
               pending'[i].kind = pending[IF i < slot THEN i ELSE i + 1].kind ]_vars

\* A failed response has been processed while the graph held a focused
\* resource.
C21_Witness ==
  /\ lastOp.op \in DOMAIN OperationLabel
  /\ FailedResponse(lastOp.response)
  /\ lastOp.reported # ""
  /\ focus.guid # ""
  /\ Len(gens) > 0

\* The guids held by the generations of gens.
GraphGuids == UNION {GuidsOf(GenAt(i)) : i \in 1..Len(gens)}

\* C22: a response is merged into the state that is current when it is
\* processed: after the callback's updateGens the graph and the index hold
\* what they held just before, and what the response supplied; nothing that
\* was added since the request was issued is lost and nothing that was
\* removed since comes back.
C22_LateResponseMergedIntoCurrentState ==
  [][ (lastOp'.op \in DOMAIN OperationLabel /\ Updated) =>
        /\ GraphGuids' = GraphGuids \cup DOMAIN lastOp'.update
        /\ DOMAIN guidToGenId' = DOMAIN guidToGenId \cup DOMAIN lastOp'.update ]_vars

\* The gens a request in flight was issued with, each generation with what
\* it holds: the snapshot of the graph its callback closes over.
View(req) == [i \in 1..Len(req.viewGens) |-> heap[req.viewGens[i]]]

\* The snapshots held by the requests in flight, in issue order.
Views == [j \in 1..Len(pending) |-> [gens |-> View(pending[j]), guidToGenId |-> pending[j].viewMap]]

\* C23: updateGens and removeGen change the shared state by copy-and-swap
\* only: every snapshot of gens (with the resource and relationship objects
\* it holds) and of guidToGenId taken before the call, such as the one held
\* by a request that stays in flight, reads the same after the call.
C23_SnapshotsUnchanged ==
  [][ (lastOp'.called \/ lastOp'.op = "removeGen") =>
        IF Len(pending') = Len(pending)
        THEN Views' = Views
        ELSE \E slot \in 1..Len(pending) :
               Views' = [j \in 1..(Len(pending) - 1) |->
                           Views[IF j < slot THEN j ELSE j + 1]] ]_vars

\* C24: operationState is "loading" only while a request is outstanding:
\* after every outcome of the operation that set it (its response processed,
\* failed or rejected, or the operation abandoned before a request is sent)
\* it is "inactive" again.
C24_LoadingOnlyWhileRequestOutstanding ==
  operationState.state = "loading" => Len(pending) > 0

\* C25: serverConfig.loading is "loading" only while the configuration
\* request that loadServerConfiguration issues for the focused server is
\* outstanding; it never stays "loading" with no such request in flight.
C25_ConfigurationLoadingHasRequest ==
  serverConfig.loading = "loading" =>
    \E i \in 1..Len(pending) : pending[i].kind = "load server configuration"

\* The category of the resource each load callback retrieves.
RetrievedCategory ==
  [_loadPlatform |-> "platform", _loadServer |-> "server-instance",
   _loadService |-> "service-instance"]

\* The resources of the retrieved category among the objects the operation
\* gave to updateGens.
Retrieved ==
  {g \in DOMAIN lastOp.update : lastOp.update[g].category = RetrievedCategory[lastOp.op]}

\* C26: when a load callback has processed a successful platform, server or
\* service-details response, the retrieved resource is the focus (its
\* category and generated identifier), operationState is {inactive, ""}, the
\* resource is held in the graph, and for a platform or a server
\* serverConfig.loading is "init".
C26_ProcessedResponseFocusesResource ==
  [][ (lastOp'.op \in LoadCallbacks /\ lastOp'.called) =>
        /\ Retrieved' = {focus'.guid}
        /\ focus'.category = RetrievedCategory[lastOp'.op]
        /\ operationState' = [state |-> "inactive", name |-> ""]
        /\ focus'.guid \in GraphGuids'
        /\ lastOp'.op # "_loadService" => serverConfig'.loading = "init" ]_vars

\* C27: a non-empty focus.guid is in guidToGenId, the generation it is
\* indexed to holds a resource with that identifier, and the category of that
\* resource is focus.category.
C27_FocusIsHeld ==
  focus.guid # "" =>
    /\ Held("resources", focus.guid)
    /\ Entity("resources", focus.guid).category = focus.category

\* The relationships held by generation genId.
RelationshipsOf(genId) == Range(GenAt(genId).relationships)

\* C28: every relationship held in a generation has a source and a target
\* that are both in guidToGenId and are resources held in the graph.
C28_RelationshipEndpointsHeld ==
  \A genId \in 1..Len(gens) : \A relationship \in RelationshipsOf(genId) :
    /\ Held("resources", relationship.source)
    /\ Held("resources", relationship.target)

\* The operation that produced this state was a response callback that ran
\* updateGens to its end.
Processed == lastOp.op \in DOMAIN OperationLabel /\ lastOp.called /\ ~lastOp.threw

\* C29: when two requests were in flight together and both successful
\* responses have been processed, one right after the other, the graph holds
\* the entities of both responses, and the second adds one generation to
\* those it found exactly if it brought an identifier that was not indexed.
C29_BothResponsesKept ==
  [][ (Processed /\ Processed' /\ Len(pending') = Len(pending) - 1) =>
        /\ DOMAIN lastOp.update \cup DOMAIN lastOp'.update \subseteq GraphGuids'
        /\ Len(gens') = Len(gens) +
             (IF DOMAIN lastOp'.update \subseteq DOMAIN guidToGenId THEN 0 ELSE 1) ]_vars

\* C30: immediately after clear, whatever the state before, gens is empty,
\* guidToGenId is empty, focus is {category: "", guid: ""} and
\* serverConfig.loading is "init".
C30_ClearEmptiesEverything ==
  lastOp.op = "clear" =>
    /\ gens = <<>>
    /\ guidToGenId = <<>>
    /\ focus = [category |-> "", guid |-> ""]
    /\ serverConfig.loading = "init"

\* clear has run on a graph that had a focused resource, while a request
\* issued from a non-empty graph is still in flight.
C30_Witness ==
  /\ lastOp.op = "clear"
  /\ lastOp.prevFocus # ""
  /\ \E j \in 1..Len(pending) : pending[j].viewMap # <<>>
  /\ gens = <<>>
  /\ guidToGenId = <<>>

\* C31: removeGen called when there are no generations completes without
\* error and leaves gens, guidToGenId, focus and operationState unchanged.
C31_RemoveGenOnEmptyIsSafe ==
  [][ (lastOp'.op = "removeGen" /\ Len(gens) = 0) =>
        /\ ~lastOp'.threw
        /\ UNCHANGED <<gens, guidToGenId, focus, operationState>> ]_vars

\* The operations that add entities to the graph without selecting them.
AddingOperations == {"_getActiveServers", "_getKnownServers", "loadCohort", "loadPartnerOMAS"}

\* C32: the handler of the server-list responses, loadCohort and
\* loadPartnerOMAS change only gens and guidToGenId: focus and operationState
\* (and the server configuration) are the same after as before.
C32_AddingLeavesSelection ==
  [][ lastOp'.op \in AddingOperations =>
        /\ focus' = focus
        /\ operationState' = operationState
        /\ serverConfig' = serverConfig ]_vars

\* A server-list response has added a generation while a resource was
\* focused and a load was in progress.
C32_Witness ==
  /\ lastOp.op \in {"_getActiveServers", "_getKnownServers"}
  /\ lastOp.called /\ ~lastOp.threw
  /\ DOMAIN lastOp.update # {}
  /\ focus.guid # ""
  /\ operationState.state = "loading"

\* The server instances among the objects the operation gave to updateGens.
UpdatedServers ==
  {g \in DOMAIN lastOp.update : lastOp.update[g].category = "server-instance"}

\* C33: processRetrievedServer gives updateGens a platform-server-edge only
\* when the platform named in the requestSummary is already in the graph;
\* when it is not, the update holds the server-instance resource and nothing
\* else.
C33_EdgeOnlyForKnownPlatform ==
  [][ (lastOp'.op = "_loadServer" /\ lastOp'.called) =>
        \A g \in UpdatedServers' :
          genPlatformGUID(lastOp'.update[g].platformName) \notin DOMAIN guidToGenId =>
            DOMAIN lastOp'.update = {g} ]_vars

\* The platform-server-edge relationships held by the generations of gens.
PlatformServerEdges ==
  {relationship \in UNION {RelationshipsOf(genId) : genId \in 1..Len(gens)} :
     relationship.category = "platform-server-edge"}

\* C34: the graph holds at most one platform-server-edge with a given
\* platform as source and a given server instance as target.
C34_OneEdgePerPlatformAndServer ==
  \A e1, e2 \in PlatformServerEdges :
    (e1.source = e2.source /\ e1.target = e2.target) => e1.guid = e2.guid

\* The service instances that are the source of a service-dependency-edge
\* held in the graph.
DependencySources ==
  {relationship.source :
     relationship \in {r \in UNION {RelationshipsOf(genId) : genId \in 1..Len(gens)} :
                         r.category = "service-dependency-edge"}}

\* The source service instances of the dependency edges the operation gave
\* to updateGens.
UpdatedDependencySources ==
  {lastOp.update[g].source :
     g \in {k \in DOMAIN lastOp.update : lastOp.update[k].category = "service-dependency-edge"}}

\* C35: after loadPartnerOMAS has run for a source service instance, the
\* graph holds a service-dependency-edge from that instance and still holds
\* one from every service instance that had one: the edge of one source is
\* never overwritten by a call for another.
C35_DependencyEdgePerSource ==
  [][ (lastOp'.op = "loadPartnerOMAS" /\ Updated) =>
        DependencySources' = DependencySources \cup UpdatedDependencySources' ]_vars

\* The relationship guid, held in the graph, joins a platform held in the
\* graph to a server instance held in the graph.
PlatformServerLink(guid) ==
  LET relationship == Entity("relationships", guid) IN
  /\ Held("resources", relationship.source)
  /\ Held("resources", relationship.target)
  /\ Entity("resources", relationship.source).category = "platform"
  /\ Entity("resources", relationship.target).category = "server-instance"

\* C36: selectTargetResource on a relationship held in the graph issues a
\* server load request and sets operationState to loading when the source is
\* a platform and the target a server-instance; for any other source and
\* target it raises an alert, issues no request and leaves focus,
\* operationState, gens and guidToGenId unchanged.
C36_SelectTargetLoadsOrAlerts ==
  [][ (lastOp'.op = "selectTargetResource" /\ Held("relationships", lastOp'.arg)) =>
        IF PlatformServerLink(lastOp'.arg)
        THEN /\ Len(pending') = Len(pending) + 1
             /\ pending'[Len(pending')].kind = "load server"
             /\ operationState'.state = "loading"
        ELSE /\ lastOp'.alerted
             /\ Len(pending') = Len(pending)
             /\ focus' = focus
             /\ operationState' = operationState
             /\ Graph' = Graph
             /\ guidToGenId' = guidToGenId ]_vars

\* No platform a component can name is in the index.
NoPlatformIndexed ==
  \A platformName \in PlatformNames : genPlatformGUID(platformName) \notin DOMAIN guidToGenId

\* No server a component can name is in the index.
NoServerIndexed ==
  \A serverName \in ServerNames : genServerInstanceGUID(serverName) \notin DOMAIN guidToGenId

\* C37: loadCohort for a server that is not in the index, and
\* getActiveServers or getKnownServers for a platform identifier that is not
\* in the index, raise an alert, issue no request and leave gens,
\* guidToGenId and focus unchanged.
C37_MissingContextAlertsWithoutRequest ==
  [][ ( \/ lastOp'.op \in {"getActiveServers", "getKnownServers"} /\ NoPlatformIndexed
        \/ lastOp'.op = "loadCohort" /\ NoServerIndexed ) =>
        /\ lastOp'.alerted
        /\ pending' = pending
        /\ Graph' = Graph
        /\ guidToGenId' = guidToGenId
        /\ focus' = focus ]_vars

\* C38: after a successful configuration response carrying both
\* configurations, serverConfig.diffs has exactly one entry per path of the
\* mismatch list of compareConfigurations, holding the stored and the active
\* value found at that path, serverConfig.matching is "true" exactly when
\* the list is empty, and serverConfig.loading is "loaded".
C38_DiffsFollowMismatchList ==
  HasCompared =>
    /\ ~lastOp.threw
    /\ serverConfig.loading = "loaded"
    /\ (serverConfig.matching = "true") <=> (lastOp.mpn = <<>>)
    /\ DOMAIN serverConfig.diffs = Range(lastOp.mpn)
    /\ \A propName \in Range(lastOp.mpn) :
         /\ serverConfig.diffs[propName].stored = reduce(split(propName), lastOp.stored)
         /\ serverConfig.diffs[propName].active = reduce(split(propName), lastOp.active)

============================================================================
